------------------------------ MODULE Catalog -------------------------------
(***************************************************************************)
(* The Postgres catalog of one hypertable, one SQL statement per step.      *)
(*                                                                          *)
(* Attempts run commit_txn concurrently: shared feed barrier, commit-row    *)
(* INSERT, part tombstones and inserts, ingest-offset CAS, COMMIT.  Feed    *)
(* readers take the barrier exclusively to learn a head, page through the   *)
(* commits below it and advance one shared durable cursor.  A transaction's *)
(* writes stay its own until COMMIT; the rows it wrote are locked until it  *)
(* ends.                                                                    *)
(***************************************************************************)
EXTENDS CatalogTypes

CONSTANTS
    Reader,     \* processes consuming the feed under one cursor name
    LegacyKeys, \* keys of commit rows that predate fingerprints
    NoCursor    \* the worker_cursors row does not exist yet

ASSUME CatalogAssumption == LegacyKeys \subseteq Identity /\ NoCursor \notin Nat

VARIABLES
    \* transactions
    pc,         \* attempt -> the statement it runs next
    op,         \* attempt -> what it was asked to do
    id,         \* attempt -> the commit id its INSERT drew (0: none yet)
    locked,     \* attempt -> parts its UPDATE has stamped and locked
    moved,      \* attempt -> lanes whose offset row it has written and locked
    reply,      \* attempt -> what its caller has been told
    lookup,     \* attempt -> what lookup_operation said after an ambiguous COMMIT
    \* durable tables
    seq,        \* the commits.id sequence; never rolled back
    landed,     \* attempts whose transaction is durable
    deleted,    \* part -> the attempt that tombstoned it, or Nobody
    next,       \* lane -> next_offset (0: no row yet)
    \* feed readers
    rpc,        \* reader -> what it does next
    head,       \* reader -> the last feed head it was shown
    after,      \* reader -> the cursor value its poll started from
    event,      \* reader -> the commit id it is handling (0: none)
    cursor,     \* the shared worker_cursors row, or NoCursor
    settled     \* commit ids handled, or below the head at registration

txVars == <<pc, op, id, locked, moved, reply, lookup>>
tableVars == <<seq, landed, deleted, next>>
readerVars == <<rpc, head, after, event, cursor, settled>>
vars == <<txVars, tableVars, readerVars>>

NoOp == DropOp({})
NoReply == [tag |-> "none", by |-> Nobody]

Init ==
    /\ pc = [s \in Attempt |-> "idle"]
    /\ op = [s \in Attempt |-> NoOp]
    /\ id = [s \in Attempt |-> 0]
    /\ locked = [s \in Attempt |-> {}]
    /\ moved = [s \in Attempt |-> {}]
    /\ reply = [s \in Attempt |-> NoReply]
    /\ lookup = [s \in Attempt |-> "none"]
    /\ seq = 0
    /\ landed = {}
    /\ deleted = [p \in Attempt |-> Nobody]
    /\ next = [l \in Lane |-> 0]
    /\ rpc = [r \in Reader |-> "idle"]
    /\ head = [r \in Reader |-> 0]
    /\ after = [r \in Reader |-> 0]
    /\ event = [r \in Reader |-> 0]
    /\ cursor = NoCursor
    /\ settled = {}

-----------------------------------------------------------------------------
(* What the durable tables say, and who holds which lock. *)

Live == {p \in landed : op[p].rows # {} /\ deleted[p] = Nobody}

RowsOf(ps) == UNION {op[p].rows : p \in ps}

\* The transaction holds the feed barrier in shared mode.
Sharing == {"reconcile", "fence", "alloc", "insert", "conflict",
            "apply", "offsets", "committing"}

\* Its commits row is inserted, visible to nobody else, and blocks its key.
Inserted == {"apply", "offsets", "committing"}

\* It has drawn a commit id.
Numbered == Inserted \cup {"insert", "conflict"}

\* The reader holds the feed barrier in exclusive mode.
Exclusive == {"registers", "reads"}

Connected(s) == reply[s].tag = "none"

\* The caller gets its answer; the dropped transaction rolls back later.
Return(s, tag, by) ==
    /\ reply' = [reply EXCEPT ![s] = [tag |-> tag, by |-> by]]
    /\ UNCHANGED <<pc, op, id, locked, moved, lookup, tableVars, readerVars>>

Goto(s, label) == pc' = [pc EXCEPT ![s] = label]

\* What a fresh-snapshot read of the key finds (lookup_in_tx + reconcile).
KeyHolder(k) == {t \in landed : op[t].key = k}

Reconciled(k) == k \in LegacyKeys \/ KeyHolder(k) # {}

ReturnReconciled(s, k) ==
    IF k \in LegacyKeys
    THEN Return(s, "collision", Nobody)
    ELSE \E t \in KeyHolder(k) : Return(s, "already", t)
-----------------------------------------------------------------------------
(* One call of commit / commit_with_offsets / commit_compaction_replace. *)

\* Workers plan against what is live when they plan; by the time their
\* statements run the plan may be stale.  Any subset of the live parts stands
\* for what a ladder level or a finalization selects; delete_key takes every
\* live part that holds the key.
Plans ==
    {AddOp(a) : a \in Adds}
    \cup {CompactionOp(ps, RowsOf(ps)) : ps \in (SUBSET Live) \ {{}}}
    \cup {DropOp(ps) : ps \in (SUBSET Live) \ {{}}}
    \cup {DeleteKeyOp(ps, RowsOf(ps)) :
             ps \in {{p \in Live : op[p].rows \cap Victim # {}}} \ {{}}}

\* Only commit_compaction_replace carries a lease.
Leased(o) == o.kind = "replace" /\ o.key.domain = "compaction"

Begin(s, o) ==
    /\ pc[s] = "idle"
    /\ op' = [op EXCEPT ![s] = o]
    /\ Goto(s, "begin")
    /\ UNCHANGED <<id, locked, moved, reply, lookup, tableVars, readerVars>>

\* pg_advisory_xact_lock_shared, before any id is drawn.
ShareBarrier(s) ==
    /\ pc[s] = "begin" /\ Connected(s)
    /\ \A r \in Reader : rpc[r] \notin Exclusive
    /\ Goto(s, IF Leased(op[s]) THEN "reconcile" ELSE "alloc")
    /\ UNCHANGED <<op, id, locked, moved, reply, lookup, tableVars, readerVars>>

\* A leased replay is answered before its lease is judged.
ReconcileFirst(s) ==
    /\ pc[s] = "reconcile" /\ Connected(s)
    /\ IF Reconciled(op[s].key)
       THEN ReturnReconciled(s, op[s].key)
       ELSE /\ Goto(s, "fence")
            /\ UNCHANGED <<op, id, locked, moved, reply, lookup, tableVars, readerVars>>

\* The lease table is modelled in CompactionLease; here the fence may say either.
Fence(s) ==
    /\ pc[s] = "fence" /\ Connected(s)
    /\ \/ Return(s, "leaselost", Nobody)
       \/ /\ Goto(s, "alloc")
          /\ UNCHANGED <<op, id, locked, moved, reply, lookup, tableVars, readerVars>>

\* The INSERT evaluates the identity column first ...
AllocateId(s) ==
    /\ pc[s] = "alloc" /\ Connected(s)
    /\ seq' = seq + 1
    /\ id' = [id EXCEPT ![s] = seq + 1]
    /\ Goto(s, "insert")
    /\ UNCHANGED <<op, locked, moved, reply, lookup, landed, deleted, next, readerVars>>

\* ... then waits for an in-flight row with the same key, and does nothing if a
\* committed one holds it.
InsertCommit(s) ==
    /\ pc[s] = "insert" /\ Connected(s)
    /\ op[s].key # NoKey =>
          \A t \in Attempt \ {s} : ~(pc[t] \in Inserted /\ op[t].key = op[s].key)
    /\ Goto(s, IF op[s].key # NoKey /\ Reconciled(op[s].key)
               THEN "conflict" ELSE "apply")
    /\ UNCHANGED <<op, id, locked, moved, reply, lookup, tableVars, readerVars>>

AnswerConflict(s) ==
    /\ pc[s] = "conflict" /\ Connected(s)
    /\ ReturnReconciled(s, op[s].key)

\* The UPDATE reaches one more input row: it waits for the row's lock, then
\* re-evaluates "deleted_by_commit IS NULL" on what is committed by now.
TombstonePart(s, p) ==
    /\ pc[s] = "apply" /\ Connected(s)
    /\ p \in op[s].old \ locked[s]
    /\ \A t \in Attempt \ {s} : p \notin locked[t]
    /\ IF p \in Live
       THEN /\ locked' = [locked EXCEPT ![s] = @ \cup {p}]
            /\ UNCHANGED <<pc, op, id, moved, reply, lookup, tableVars, readerVars>>
       ELSE Return(s, "conflict", Nobody)

\* Faulty variant: the affected-row count is not compared with the input count.
InsertPartsUncounted(s) ==
    /\ pc[s] = "apply" /\ Connected(s)
    /\ Goto(s, "offsets")
    /\ UNCHANGED <<op, id, locked, moved, reply, lookup, tableVars, readerVars>>

\* Every input stamped (an ADD has none): insert_parts writes the part rows and
\* ends their upload intents.
InsertParts(s) ==
    /\ pc[s] = "apply" /\ Connected(s)
    /\ locked[s] = op[s].old
    /\ Goto(s, "offsets")
    /\ UNCHANGED <<op, id, locked, moved, reply, lookup, tableVars, readerVars>>

\* Faulty variant: the CAS admits a range that starts below next_offset.
MoveOffsetOverlapping(s, l) ==
    /\ pc[s] = "offsets" /\ Connected(s)
    /\ op[s].offs[l] # NoRange /\ l \notin moved[s]
    /\ \A t \in Attempt \ {s} : l \notin moved[t]
    /\ IF next[l] <= op[s].offs[l].last
       THEN /\ moved' = [moved EXCEPT ![s] = @ \cup {l}]
            /\ UNCHANGED <<pc, op, id, locked, reply, lookup, tableVars, readerVars>>
       ELSE Return(s, "race", Nobody)

\* The conditional upsert of one lane's offset row, under its row lock.
MoveOffset(s, l) ==
    /\ pc[s] = "offsets" /\ Connected(s)
    /\ op[s].offs[l] # NoRange /\ l \notin moved[s]
    /\ \A t \in Attempt \ {s} : l \notin moved[t]
    /\ IF next[l] <= op[s].offs[l].first
       THEN /\ moved' = [moved EXCEPT ![s] = @ \cup {l}]
            /\ UNCHANGED <<pc, op, id, locked, reply, lookup, tableVars, readerVars>>
       ELSE Return(s, "race", Nobody)

\* Every lane accounted for: the client sends COMMIT.
SendCommit(s) ==
    /\ pc[s] = "offsets" /\ Connected(s)
    /\ \A l \in Lane : op[s].offs[l] # NoRange => l \in moved[s]
    /\ Goto(s, "committing")
    /\ UNCHANGED <<op, id, locked, moved, reply, lookup, tableVars, readerVars>>
-----------------------------------------------------------------------------
(* How a transaction ends. *)

\* Faulty variant: every lost COMMIT is reported as a definite failure.
UnansweredIsError(s) == "error"

\* An unanswered COMMIT of a keyed operation is AmbiguousMutation, to be
\* reconciled; without a key it is UnidentifiedAmbiguousMutation.
Unanswered(s) == IF op[s].key = NoKey THEN "unidentified" ELSE "ambiguous"

EndTx(s) ==
    /\ Goto(s, "done")
    /\ locked' = [locked EXCEPT ![s] = {}]
    /\ moved' = [moved EXCEPT ![s] = {}]

\* Locks release and the tables change at one instant, whether or not the
\* caller is still there; its acknowledgement may be lost.
CommitDurable(s) ==
    /\ pc[s] = "committing"
    /\ EndTx(s)
    /\ landed' = landed \cup {s}
    /\ deleted' = [p \in Attempt |-> IF p \in locked[s] THEN s ELSE deleted[p]]
    /\ next' = [l \in Lane |-> IF l \in moved[s] THEN op[s].offs[l].last + 1 ELSE next[l]]
    /\ \/ ~Connected(s) /\ UNCHANGED reply
       \/ Connected(s) /\ reply' = [reply EXCEPT ![s] = [tag |-> "committed", by |-> s]]
       \/ Connected(s) /\ reply' = [reply EXCEPT ![s] = [tag |-> Unanswered(s), by |-> Nobody]]
    /\ UNCHANGED <<op, id, lookup, seq, readerVars>>

\* The server refuses the COMMIT, or dies before it is durable.
CommitLost(s) ==
    /\ pc[s] = "committing"
    /\ EndTx(s)
    /\ \/ ~Connected(s) /\ UNCHANGED reply
       \/ Connected(s) /\ reply' = [reply EXCEPT ![s] = [tag |-> "error", by |-> Nobody]]
       \/ Connected(s) /\ reply' = [reply EXCEPT ![s] = [tag |-> Unanswered(s), by |-> Nobody]]
    /\ UNCHANGED <<op, id, lookup, tableVars, readerVars>>

\* The connection drops while the server still works on the COMMIT.
LoseConnection(s) ==
    /\ pc[s] = "committing" /\ Connected(s)
    /\ Return(s, Unanswered(s), Nobody)

\* Faulty variant: no lock_timeout and no deadlock detection.
FailNever(s) == FALSE /\ Return(s, "error", Nobody)

\* Any failure before COMMIT is sent: lock timeout, deadlock, statement error,
\* broken connection.  COMMIT is never sent for such a transaction.
Fail(s) ==
    /\ pc[s] \in (Sharing \cup {"begin"}) \ {"committing"} /\ Connected(s)
    /\ Return(s, "error", Nobody)

Rollback(s) ==
    /\ pc[s] \in (Sharing \cup {"begin"}) \ {"committing"} /\ ~Connected(s)
    /\ EndTx(s)
    /\ UNCHANGED <<op, id, reply, lookup, tableVars, readerVars>>

\* Supervision asks what became of an ambiguous operation, on a new connection.
LookupOperation(s) ==
    /\ reply[s].tag = "ambiguous" /\ lookup[s] = "none"
    /\ lookup' = [lookup EXCEPT ![s] =
                     IF op[s].key \in LegacyKeys THEN "collision"
                     ELSE IF KeyHolder(op[s].key) # {} THEN "committed" ELSE "absent"]
    /\ UNCHANGED <<pc, op, id, locked, moved, reply, tableVars, readerVars>>
-----------------------------------------------------------------------------
(* Feed readers: ensure_mv_cursor, and process_once of a shared cursor. *)

\* ensure_mv_cursor opens its transaction.
StartRegistration(r) ==
    /\ rpc[r] = "idle" /\ cursor = NoCursor
    /\ rpc' = [rpc EXCEPT ![r] = "registering"]
    /\ UNCHANGED <<txVars, tableVars, head, after, event, cursor, settled>>

\* read_mv_cursor, then changes_since opens its head transaction.
Poll(r) ==
    /\ rpc[r] = "idle" /\ cursor # NoCursor
    /\ rpc' = [rpc EXCEPT ![r] = "polling"]
    /\ after' = [after EXCEPT ![r] = cursor]
    /\ UNCHANGED <<txVars, tableVars, head, event, cursor, settled>>

\* pg_advisory_xact_lock waits for every writer already past ShareBarrier.
TakeBarrier(r) ==
    /\ rpc[r] \in {"registering", "polling"}
    /\ \A s \in Attempt : pc[s] \notin Sharing
    /\ \A q \in Reader : rpc[q] \notin Exclusive
    /\ rpc' = [rpc EXCEPT ![r] = IF @ = "polling" THEN "reads" ELSE "registers"]
    /\ UNCHANGED <<txVars, tableVars, head, after, event, cursor, settled>>

CommittedIds == {id[s] : s \in landed}

IsHead(h) == h \in {0} \cup CommittedIds /\ \A i \in CommittedIds : i <= h

\* A separate statement, so its snapshot follows the lock; the reader's
\* transaction then ends and the barrier opens.
ReadHead(r) ==
    /\ rpc[r] = "reads"
    /\ \E h \in {0} \cup CommittedIds :
          /\ IsHead(h)
          /\ head' = [head EXCEPT ![r] = h]
    /\ rpc' = [rpc EXCEPT ![r] = "paging"]
    /\ UNCHANGED <<txVars, tableVars, after, event, cursor, settled>>

\* The same read, with the cursor row inserted under the barrier.  Commits up
\* to this head are not owed to the consumer; every later one is.
RegisterCursor(r) ==
    /\ rpc[r] = "registers"
    /\ \E h \in {0} \cup CommittedIds :
          /\ IsHead(h)
          /\ head' = [head EXCEPT ![r] = h]
          /\ IF cursor = NoCursor
             THEN cursor' = h /\ settled' = CommittedIds
             ELSE UNCHANGED <<cursor, settled>>
    /\ rpc' = [rpc EXCEPT ![r] = "idle"]
    /\ UNCHANGED <<txVars, tableVars, after, event>>

\* The first commit in (after, head].
Pending(r) == {i \in CommittedIds : after[r] < i /\ i <= head[r]}

ReadPage(r) ==
    /\ rpc[r] = "paging"
    /\ IF Pending(r) = {}
       THEN /\ rpc' = [rpc EXCEPT ![r] = "idle"]
            /\ UNCHANGED event
       ELSE \E e \in Pending(r) :
               /\ \A i \in Pending(r) : e <= i
               /\ event' = [event EXCEPT ![r] = e]
               /\ rpc' = [rpc EXCEPT ![r] = "handling"]
    /\ UNCHANGED <<txVars, tableVars, head, after, cursor, settled>>

\* process_event does the event's work ...
Handle(r) ==
    /\ rpc[r] = "handling"
    /\ settled' = settled \cup {event[r]}
    /\ rpc' = [rpc EXCEPT ![r] = "advancing"]
    /\ UNCHANGED <<txVars, tableVars, head, after, event, cursor>>

\* Faulty variant: the cursor moves to the head of the poll, not to its event.
AdvanceToHead(r) ==
    /\ rpc[r] = "advancing"
    /\ cursor' = IF cursor # NoCursor /\ cursor >= head[r] THEN cursor ELSE head[r]
    /\ rpc' = [rpc EXCEPT ![r] = "idle"]
    /\ UNCHANGED <<txVars, tableVars, head, after, event, settled>>

\* ... and only then set_cursor moves the shared row, never backwards.
Advance(r) ==
    /\ rpc[r] = "advancing"
    /\ cursor' = IF cursor # NoCursor /\ cursor >= event[r] THEN cursor ELSE event[r]
    /\ rpc' = [rpc EXCEPT ![r] = "idle"]
    /\ UNCHANGED <<txVars, tableVars, head, after, event, settled>>

\* A lock timeout, an error or a crash anywhere: in-memory progress is gone.
Abandon(r) ==
    /\ rpc[r] # "idle"
    /\ rpc' = [rpc EXCEPT ![r] = "idle"]
    /\ UNCHANGED <<txVars, tableVars, head, after, event, cursor, settled>>
-----------------------------------------------------------------------------
Statement(s) ==
    \/ ShareBarrier(s)
    \/ ReconcileFirst(s)
    \/ Fence(s)
    \/ AllocateId(s)
    \/ InsertCommit(s)
    \/ AnswerConflict(s)
    \/ \E p \in Attempt : TombstonePart(s, p)
    \/ InsertParts(s)
    \/ \E l \in Lane : MoveOffset(s, l)
    \/ SendCommit(s)

Ending(s) ==
    \/ CommitDurable(s)
    \/ CommitLost(s)
    \/ LoseConnection(s)
    \/ Fail(s)
    \/ Rollback(s)

ReaderStep(r) ==
    \/ StartRegistration(r)
    \/ Poll(r)
    \/ TakeBarrier(r)
    \/ ReadHead(r)
    \/ RegisterCursor(r)
    \/ ReadPage(r)
    \/ Handle(r)
    \/ Advance(r)

Next ==
    \/ \E s \in Attempt :
          \/ \E o \in Plans : Begin(s, o)
          \/ Statement(s)
          \/ Ending(s)
          \/ LookupOperation(s)
    \/ \E r \in Reader : ReaderStep(r) \/ Abandon(r)

Spec == Init /\ [][Next]_vars

(***************************************************************************)
(* A transaction in flight takes its next statement, or is ended by the     *)
(* lock timeout every pooled connection carries; a COMMIT the server has    *)
(* received is decided.  A feed consumer keeps polling, and the errors and  *)
(* crashes that make it start over come to an end.                          *)
(***************************************************************************)
Fairness ==
    /\ \A s \in Attempt : WF_vars(Statement(s) \/ Ending(s))
    /\ \A r \in Reader : WF_vars(ReaderStep(r))
    /\ <>[][\A r \in Reader : Abandon(r) => ReaderStep(r)]_vars

FairSpec == Spec /\ Fairness
-----------------------------------------------------------------------------
(* Properties. *)

Tags == {"none", "committed", "already", "conflict", "race", "leaselost",
         "collision", "error", "ambiguous", "unidentified"}

TxTypeOK ==
    /\ pc \in [Attempt -> Sharing \cup {"idle", "begin", "done"}]
    /\ op \in [Attempt -> Op]
    /\ id \in [Attempt -> Nat]
    /\ locked \in [Attempt -> SUBSET Attempt]
    /\ moved \in [Attempt -> SUBSET Lane]
    /\ reply \in [Attempt -> [tag : Tags, by : Attempt \cup {Nobody}]]
    /\ lookup \in [Attempt -> {"none", "committed", "absent", "collision"}]

TableTypeOK ==
    /\ seq \in Nat
    /\ landed \in SUBSET Attempt
    /\ deleted \in [Attempt -> Attempt \cup {Nobody}]
    /\ next \in [Lane -> Nat]

ReaderTypeOK ==
    /\ rpc \in [Reader -> Exclusive \cup {"idle", "registering", "polling",
                                          "paging", "handling", "advancing"}]
    /\ head \in [Reader -> Nat]
    /\ after \in [Reader -> Nat]
    /\ event \in [Reader -> Nat]
    /\ cursor \in Nat \cup {NoCursor}
    /\ settled \in SUBSET Nat

\* Every variable keeps its type, whatever the transactions and readers do.
TypeOK == TxTypeOK /\ TableTypeOK /\ ReaderTypeOK

\* The feed barrier (commit_txn, feed_head_in_tx): once any reader has been
\* shown a head, no transaction ever becomes visible at or below it, although
\* ids are drawn before COMMIT and transactions commit out of id order.
PrefixClosed ==
    [][\A s \in landed' \ landed, r \in Reader : head[r] < id'[s]]_vars

\* Why the prefix stays closed: the barrier is taken before the id is drawn and
\* held until the transaction ends, so whoever holds it exclusively sees no
\* half-done writer, and every id still in flight is above every head shown.
BarrierDiscipline ==
    /\ \A s, t \in Attempt : s # t /\ id[s] = id[t] => id[s] = 0
    /\ \A s \in Attempt : /\ id[s] <= seq
                          /\ pc[s] \in Numbered \/ s \in landed => id[s] # 0
                          /\ s \in landed => pc[s] = "done"
    /\ \A r \in Reader : /\ head[r] <= seq
                         /\ rpc[r] \in Exclusive => \A s \in Attempt : pc[s] \notin Sharing
                         /\ \A s \in Attempt : pc[s] \in Numbered => head[r] < id[s]

RowLocks ==
    /\ \A s, t \in Attempt : s # t => locked[s] \cap locked[t] = {}
    /\ \A s \in Attempt :
          /\ locked[s] # {} => pc[s] \in Inserted
          /\ locked[s] \subseteq op[s].old \cap Live
          /\ pc[s] \in {"offsets", "committing"} => locked[s] = op[s].old

LaneLocks ==
    /\ \A s, t \in Attempt : s # t => moved[s] \cap moved[t] = {}
    /\ \A s \in Attempt :
          /\ moved[s] # {} => pc[s] \in Inserted
          /\ \A l \in moved[s] : op[s].offs[l] # NoRange /\ next[l] <= op[s].offs[l].first
          /\ pc[s] = "committing" =>
                \A l \in Lane : op[s].offs[l] # NoRange => l \in moved[s]

KeyLocks ==
    \A s \in Attempt :
        pc[s] \in Inserted /\ op[s].key # NoKey =>
            /\ KeyHolder(op[s].key) = {}
            /\ \A t \in Attempt \ {s} : pc[t] \in Inserted => op[t].key # op[s].key

\* Why a transaction is atomic although its checks and its effects are several
\* statements apart: what the tombstone UPDATE, the offset CAS and the keyed
\* INSERT established is locked, and still true when COMMIT lands.
LockDiscipline == RowLocks /\ LaneLocks /\ KeyLocks

\* changes_since + set_cursor: the shared cursor never passes a commit its
\* consumers have not handled, whatever replicas raced, lagged or crashed, and
\* events are first handled in commit order.
FeedComplete ==
    /\ cursor # NoCursor => \A s \in landed : id[s] <= cursor => id[s] \in settled
    /\ \A s, t \in landed : id[s] < id[t] /\ id[t] \in settled => id[s] \in settled

\* What commit_txn, reconcile and lookup_operation tell a caller is true of the
\* durable tables, then and for ever: a commit acknowledged is there, a replay is
\* answered with the one commit that did the same work, and after any definite
\* refusal this attempt never lands.
OutcomeTruthful ==
    \A s \in Attempt :
        /\ reply[s].tag = "committed" => s \in landed
        /\ reply[s].tag = "already" =>
              /\ reply[s].by \in landed
              /\ op[reply[s].by].key = op[s].key
              /\ op[reply[s].by].rows = op[s].rows
        /\ reply[s].tag \in {"already", "conflict", "race", "leaselost", "collision", "error"}
              => s \notin landed
        /\ lookup[s] = "committed" => KeyHolder(op[s].key) # {}

Erased == UNION {RowsOf(op[s].old) \ op[s].rows : s \in landed}

Added == UNION {op[s].rows : s \in {t \in landed : op[t].kind = "add"}}

\* Row accounting across the three write paths: every row a landed flush
\* accepted is in exactly one live part until a delete erases it, and from then
\* on in none.  No merge, deletion or flush that races another, is retried or
\* loses its acknowledgement duplicates, loses or resurrects a row.
RowAccounting ==
    /\ \A p, q \in Live : p # q => op[p].rows \cap op[q].rows = {}
    /\ RowsOf(Live) = Added \ Erased

\* Concurrent, repeated and ambiguously lost attempts at one piece of work
\* publish it at most once: the identity's unique index lets one commit per key
\* land, and commit_with_offsets leaves a lane's durable offset just past the
\* ranges whose rows were published, no two of which overlap.
ExactlyOnce ==
    /\ \A s, t \in landed : op[s].key # NoKey /\ op[s].key = op[t].key => s = t
    /\ \A l \in Lane :
        LET flushes == {s \in landed : op[s].offs[l] # NoRange}
        IN  /\ \A s \in flushes : op[s].offs[l].last < next[l]
            /\ next[l] = 0 \/ \E s \in flushes : next[l] = op[s].offs[l].last + 1
            /\ \A s, t \in flushes : s # t => ~Overlap(op[s].offs[l], op[t].offs[l])

\* Both together, what commit_txn owes to all of its callers: work lands once,
\* and the rows it brought are in the live parts once.
LandsOnce == ExactlyOnce /\ RowAccounting

LandedLog == [s \in landed |-> [id |-> id[s], op |-> op[s]]]

Log == INSTANCE CatalogLog WITH log <- LandedLog

\* The statement-level catalog implements the atomic log: each transaction takes
\* effect at its COMMIT as if it had run alone, and a head, once shown, stands.
AtomicLog == Log!Spec

\* Every call gets an answer: row locks, key waits and the barrier cannot keep
\* callers waiting on each other for ever, because lock_timeout ends the wait.
\* And once a consumer is registered, every commit is eventually handled: the
\* feed head does not stay below one.
NothingWaitsForever ==
    \A s \in Attempt :
        /\ pc[s] = "begin" ~> reply[s].tag # "none"
        /\ s \in landed /\ cursor # NoCursor ~> id[s] \in settled

=============================================================================
