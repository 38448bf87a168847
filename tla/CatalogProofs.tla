--------------------------- MODULE CatalogProofs ----------------------------
(***************************************************************************)
(* What holds of Catalog for every set of attempts, readers, lanes and      *)
(* intents.  First its discipline: type correctness, the locks that make    *)
(* its transactions atomic, the closed feed prefix, and that the            *)
(* statement-level catalog implements the atomic log.  Then, on top of it,  *)
(* its outcomes: what every caller is told stays true, no key and no offset *)
(* is published twice, no row is lost or resurrected, and the shared feed   *)
(* cursor never passes a commit that nobody has handled.                    *)
(***************************************************************************)
EXTENDS Catalog, TLAPS

\* Every operation a worker may plan is well typed.
LEMMA PlansTyped ==
    ASSUME TypeOK
    PROVE  Plans \subseteq Op
<1>1. \A ps \in SUBSET Attempt : RowsOf(ps) \in SUBSET Row
  BY DEF TypeOK, TxTypeOK, RowsOf, Op
<1>2. Live \subseteq Attempt
  BY Zenon DEF TypeOK, TableTypeOK, Live
<1>3. NoOffsets \in [Lane -> Range \cup {NoRange}]
  BY Zenon DEF NoOffsets
<1>4. \A a \in Adds : AddOp(a) \in Op
  BY IntentAssumption, Zenon DEF AddOp, Op, Identity
<1>5. \A ps \in SUBSET Attempt, rs \in SUBSET Row :
         /\ CompactionOp(ps, rs) \in Op
         /\ DeleteKeyOp(ps, rs) \in Op
         /\ DropOp(ps) \in Op
  BY <1>3, Zenon DEF CompactionOp, DeleteKeyOp, DropOp, Op, Identity
<1> QED
  BY <1>1, <1>2, <1>4, <1>5 DEF Plans

\* Untouched groups of variables keep their types.
LEMMA Untouched ==
    /\ TableTypeOK /\ UNCHANGED tableVars => TableTypeOK'
    /\ ReaderTypeOK /\ UNCHANGED readerVars => ReaderTypeOK'
    /\ TxTypeOK /\ UNCHANGED txVars => TxTypeOK'
<1>1. TableTypeOK /\ UNCHANGED tableVars => TableTypeOK'
  BY Zenon DEF TableTypeOK, tableVars
<1>2. ReaderTypeOK /\ UNCHANGED readerVars => ReaderTypeOK'
  BY Zenon DEF ReaderTypeOK, readerVars
<1>3. TxTypeOK /\ UNCHANGED txVars => TxTypeOK'
  BY Zenon DEF TxTypeOK, txVars
<1> QED
  BY <1>1, <1>2, <1>3, Zenon

\* Sending a caller its answer keeps the types.
LEMMA ReturnTyped ==
    ASSUME TypeOK, NEW s \in Attempt, NEW tag \in Tags,
           NEW by \in Attempt \cup {Nobody}, Return(s, tag, by)
    PROVE  TypeOK'
<1>1. TxTypeOK'
  BY Zenon DEF TypeOK, TxTypeOK, Return
<1> QED
  BY <1>1, Untouched, Zenon DEF TypeOK, Return

\* So does answering from a reconciled key.
LEMMA ReturnReconciledTyped ==
    ASSUME TypeOK, NEW s \in Attempt, NEW k, ReturnReconciled(s, k)
    PROVE  TypeOK'
<1>1. KeyHolder(k) \subseteq Attempt
  BY Zenon DEF KeyHolder, TypeOK, TableTypeOK
<1> QED
  BY <1>1, ReturnTyped, Zenon DEF ReturnReconciled, Tags

\* A statement that only moves on to the next label keeps the types.
LEMMA GotoTyped ==
    ASSUME TypeOK, NEW s \in Attempt, NEW label \in Sharing, Goto(s, label),
           UNCHANGED <<op, id, locked, moved, reply, lookup, tableVars, readerVars>>
    PROVE  TypeOK'
<1>1. TxTypeOK'
  BY Zenon DEF TypeOK, TxTypeOK, Goto
<1> QED
  BY <1>1, Untouched, Zenon DEF TypeOK

\* Every statement of a transaction keeps the types.
LEMMA StatementTyped ==
    ASSUME TypeOK, NEW s \in Attempt, Statement(s)
    PROVE  TypeOK'
<1>1. CASE ShareBarrier(s)
  BY <1>1, GotoTyped, Zenon DEF ShareBarrier, Sharing
<1>2. CASE ReconcileFirst(s)
  BY <1>2, ReturnReconciledTyped, GotoTyped, Zenon DEF ReconcileFirst, Sharing
<1>3. CASE Fence(s)
  BY <1>3, ReturnTyped, GotoTyped, Zenon DEF Fence, Sharing, Tags
<1>4. CASE AllocateId(s)
  <2>1. TxTypeOK' /\ TableTypeOK'
    BY <1>4 DEF TypeOK, TxTypeOK, TableTypeOK, AllocateId, Goto, Sharing
  <2> QED
    BY <1>4, <2>1, Untouched, Zenon DEF TypeOK, AllocateId
<1>5. CASE InsertCommit(s)
  BY <1>5, GotoTyped, Zenon DEF InsertCommit, Sharing
<1>6. CASE AnswerConflict(s)
  BY <1>6, ReturnReconciledTyped, Zenon DEF AnswerConflict
<1>7. CASE \E p \in Attempt : TombstonePart(s, p)
  <2> PICK p \in Attempt : TombstonePart(s, p)
    BY <1>7, Zenon
  <2>1. CASE Return(s, "conflict", Nobody)
    BY <2>1, ReturnTyped, Zenon DEF Tags
  <2>2. CASE /\ locked' = [locked EXCEPT ![s] = @ \cup {p}]
             /\ UNCHANGED <<pc, op, id, moved, reply, lookup, tableVars, readerVars>>
    <3>1. TxTypeOK'
      BY <2>2, Zenon DEF TypeOK, TxTypeOK
    <3> QED
      BY <2>2, <3>1, Untouched, Zenon DEF TypeOK
  <2> QED
    BY <2>1, <2>2, Zenon DEF TombstonePart
<1>8. CASE InsertParts(s)
  BY <1>8, GotoTyped, Zenon DEF InsertParts, Sharing
<1>9. CASE \E l \in Lane : MoveOffset(s, l)
  <2> PICK l \in Lane : MoveOffset(s, l)
    BY <1>9, Zenon
  <2>1. CASE Return(s, "race", Nobody)
    BY <2>1, ReturnTyped, Zenon DEF Tags
  <2>2. CASE /\ moved' = [moved EXCEPT ![s] = @ \cup {l}]
             /\ UNCHANGED <<pc, op, id, locked, reply, lookup, tableVars, readerVars>>
    <3>1. TxTypeOK'
      BY <2>2, Zenon DEF TypeOK, TxTypeOK
    <3> QED
      BY <2>2, <3>1, Untouched, Zenon DEF TypeOK
  <2> QED
    BY <2>1, <2>2, Zenon DEF MoveOffset
<1>10. CASE SendCommit(s)
  BY <1>10, GotoTyped, Zenon DEF SendCommit, Sharing
<1> QED
  BY <1>1, <1>2, <1>3, <1>4, <1>5, <1>6, <1>7, <1>8, <1>9, <1>10, Zenon DEF Statement

\* So does every way a transaction can end.
LEMMA EndingTyped ==
    ASSUME TypeOK, LockDiscipline, NEW s \in Attempt, Ending(s)
    PROVE  TypeOK'
<1>1. CASE CommitDurable(s)
  <2>1. next' \in [Lane -> Nat]
    <3> SUFFICES ASSUME NEW l \in Lane, l \in moved[s]
                 PROVE  op[s].offs[l].last + 1 \in Nat
      BY <1>1, Zenon DEF TypeOK, TableTypeOK, CommitDurable
    <3> QED
      BY DEF TypeOK, TxTypeOK, LockDiscipline, LaneLocks, Op, Range
  <2>2. TableTypeOK'
    BY <1>1, <2>1, Zenon DEF TypeOK, TableTypeOK, CommitDurable
  <2>3. TxTypeOK'
    BY <1>1 DEF TypeOK, TxTypeOK, CommitDurable, EndTx, Goto, Unanswered, Tags
  <2> QED
    BY <1>1, <2>2, <2>3, Untouched, Zenon DEF TypeOK, CommitDurable
<1>2. CASE CommitLost(s)
  <2>1. TxTypeOK'
    BY <1>2 DEF TypeOK, TxTypeOK, CommitLost, EndTx, Goto, Unanswered, Tags
  <2> QED
    BY <1>2, <2>1, Untouched, Zenon DEF TypeOK, CommitLost
<1>3. CASE LoseConnection(s)
  BY <1>3, ReturnTyped, Zenon DEF LoseConnection, Unanswered, Tags
<1>4. CASE Fail(s)
  BY <1>4, ReturnTyped, Zenon DEF Fail, Tags
<1>5. CASE Rollback(s)
  <2>1. TxTypeOK'
    BY <1>5, Zenon DEF TypeOK, TxTypeOK, Rollback, EndTx, Goto
  <2> QED
    BY <1>5, <2>1, Untouched, Zenon DEF TypeOK, Rollback
<1> QED
  BY <1>1, <1>2, <1>3, <1>4, <1>5, Zenon DEF Ending

\* And every step of a feed reader.
LEMMA ReaderTyped ==
    ASSUME TypeOK, NEW r \in Reader, ReaderStep(r) \/ Abandon(r)
    PROVE  TypeOK'
<1>1. CommittedIds \subseteq Nat
  BY DEF CommittedIds, TypeOK, TxTypeOK, TableTypeOK
<1>2. UNCHANGED <<txVars, tableVars>>
  BY Zenon DEF ReaderStep, Abandon, StartRegistration, Poll, TakeBarrier, ReadHead,
         RegisterCursor, ReadPage, Handle, Advance
<1>3. CASE StartRegistration(r) \/ Poll(r) \/ TakeBarrier(r) \/ Abandon(r)
  <2>1. ReaderTypeOK'
    BY <1>3, Zenon DEF TypeOK, ReaderTypeOK, StartRegistration, Poll, TakeBarrier,
                Abandon, Exclusive
  <2> QED
    BY <1>2, <2>1, Untouched, Zenon DEF TypeOK
<1>4. CASE ReadHead(r) \/ RegisterCursor(r)
  <2>1. head' \in [Reader -> Nat] /\ rpc' \in [Reader -> Exclusive \cup {"idle",
                 "registering", "polling", "paging", "handling", "advancing"}]
    BY <1>1, <1>4 DEF TypeOK, ReaderTypeOK, ReadHead, RegisterCursor
  <2>2. settled' \in SUBSET Nat
    BY <1>1, <1>4, Zenon DEF TypeOK, ReaderTypeOK, ReadHead, RegisterCursor
  <2>3. cursor' \in Nat \cup {NoCursor}
    BY <1>1, <1>4 DEF TypeOK, ReaderTypeOK, ReadHead, RegisterCursor
  <2>4. ReaderTypeOK'
    BY <1>4, <2>1, <2>2, <2>3, Zenon DEF TypeOK, ReaderTypeOK, ReadHead, RegisterCursor
  <2> QED
    BY <1>2, <2>4, Untouched, Zenon DEF TypeOK
<1>5. CASE ReadPage(r)
  <2>1. ReaderTypeOK'
    BY <1>1, <1>5, ZenonT(30) DEF TypeOK, ReaderTypeOK, ReadPage, Pending, Exclusive
  <2> QED
    BY <1>2, <2>1, Untouched, Zenon DEF TypeOK
<1>6. CASE Handle(r) \/ Advance(r)
  <2>1. cursor' \in Nat \cup {NoCursor} /\ settled' \in SUBSET Nat
    BY <1>6, Zenon DEF TypeOK, ReaderTypeOK, Handle, Advance
  <2>2. ReaderTypeOK'
    BY <1>6, <2>1, Zenon DEF TypeOK, ReaderTypeOK, Handle, Advance
  <2> QED
    BY <1>2, <2>2, Untouched, Zenon DEF TypeOK
<1> QED
  BY <1>3, <1>4, <1>5, <1>6, Zenon DEF ReaderStep

\* Hence every step keeps the types.
LEMMA NextTyped ==
    ASSUME TypeOK, LockDiscipline, [Next]_vars
    PROVE  TypeOK'
<1>1. CASE UNCHANGED vars
  BY <1>1, Untouched, Zenon DEF vars, TypeOK
<1>2. ASSUME NEW s \in Attempt, NEW o \in Plans, Begin(s, o)
      PROVE  TypeOK'
  <2>1. TxTypeOK'
    BY <1>2, PlansTyped, Zenon DEF TypeOK, TxTypeOK, Begin, Goto
  <2> QED
    BY <1>2, <2>1, Untouched, Zenon DEF TypeOK, Begin
<1>3. ASSUME NEW s \in Attempt, LookupOperation(s)
      PROVE  TypeOK'
  <2>1. TxTypeOK'
    BY <1>3, Zenon DEF TypeOK, TxTypeOK, LookupOperation
  <2> QED
    BY <1>3, <2>1, Untouched, Zenon DEF TypeOK, LookupOperation
<1> QED
  BY <1>1, <1>2, <1>3, StatementTyped, EndingTyped, ReaderTyped, Zenon DEF Next

-----------------------------------------------------------------------------
\* A step that leaves ids, heads and labels alone keeps the barrier discipline.
LEMMA BarrierKept ==
    ASSUME BarrierDiscipline, UNCHANGED <<id, seq, landed, rpc, head, pc>>
    PROVE  BarrierDiscipline'
  BY Zenon DEF BarrierDiscipline

\* So does a transaction that moves on without taking the barrier or an id.
LEMMA BarrierGoto ==
    ASSUME TypeOK, BarrierDiscipline, UNCHANGED <<id, seq, landed, rpc, head>>,
           NEW s \in Attempt, NEW label, Goto(s, label),
           s \in landed => label = "done",
           label \in Sharing => pc[s] \in Sharing,
           label \in Numbered => pc[s] \in Numbered
    PROVE  BarrierDiscipline'
  BY Zenon DEF BarrierDiscipline, Goto, TypeOK, TxTypeOK

\* The discipline of the feed barrier is kept by every step.
LEMMA NextBarrier ==
    ASSUME TypeOK, BarrierDiscipline, [Next]_vars
    PROVE  BarrierDiscipline'
<1> USE DEF Sharing, Numbered, Inserted
<1>1. CASE UNCHANGED vars
  BY <1>1, BarrierKept, Zenon DEF vars, txVars, tableVars, readerVars
<1>2. ASSUME NEW s \in Attempt, NEW o \in Plans, Begin(s, o)
      PROVE  BarrierDiscipline'
  BY <1>2, BarrierGoto, Zenon DEF Begin, BarrierDiscipline, tableVars, readerVars
<1>3. ASSUME NEW s \in Attempt, Statement(s)
      PROVE  BarrierDiscipline'
  <2>1. CASE ShareBarrier(s)
    BY <1>3, <2>1, Zenon DEF ShareBarrier, BarrierDiscipline, Goto, TypeOK, TxTypeOK,
                      tableVars, readerVars
  <2>2. CASE AllocateId(s)
    BY <1>3, <2>2 DEF AllocateId, BarrierDiscipline, Goto, TypeOK, TxTypeOK,
                      TableTypeOK, ReaderTypeOK, readerVars
  <2>3. CASE /\ pc[s] # "done"
             /\ \/ ReconcileFirst(s) \/ Fence(s) \/ InsertCommit(s) \/ AnswerConflict(s)
                \/ (\E p \in Attempt : TombstonePart(s, p)) \/ InsertParts(s)
                \/ (\E l \in Lane : MoveOffset(s, l)) \/ SendCommit(s)
    BY <1>3, <2>3, BarrierKept, BarrierGoto, Zenon
       DEF ReconcileFirst, Fence, InsertCommit, AnswerConflict, TombstonePart,
           InsertParts, MoveOffset, SendCommit, ReturnReconciled, Return,
           BarrierDiscipline, tableVars, readerVars
  <2> QED
    BY <1>3, <2>1, <2>2, <2>3, Zenon DEF Statement, ReconcileFirst, Fence, InsertCommit,
       AnswerConflict, TombstonePart, InsertParts, MoveOffset, SendCommit
<1>4. ASSUME NEW s \in Attempt, Ending(s)
      PROVE  BarrierDiscipline'
  <2>1. CASE CommitDurable(s)
    BY <1>4, <2>1, ZenonT(30) DEF CommitDurable, EndTx, BarrierDiscipline, Goto, TypeOK, TxTypeOK,
                      TableTypeOK, readerVars
  <2>2. CASE CommitLost(s) \/ Rollback(s)
    BY <1>4, <2>2, BarrierGoto, Zenon DEF CommitLost, Rollback, EndTx, tableVars, readerVars
  <2>3. CASE LoseConnection(s) \/ Fail(s)
    BY <1>4, <2>3, BarrierKept, Zenon DEF LoseConnection, Fail, Return, tableVars, readerVars
  <2> QED
    BY <1>4, <2>1, <2>2, <2>3, Zenon DEF Ending
<1>5. ASSUME NEW s \in Attempt, LookupOperation(s)
      PROVE  BarrierDiscipline'
  BY <1>5, BarrierKept, Zenon DEF LookupOperation, tableVars, readerVars
<1>6. ASSUME NEW r \in Reader, ReaderStep(r) \/ Abandon(r)
      PROVE  BarrierDiscipline'
  <2>1. UNCHANGED <<id, seq, landed, pc>>
    BY <1>6, Zenon DEF ReaderStep, Abandon, StartRegistration, Poll, TakeBarrier, ReadHead,
                RegisterCursor, ReadPage, Handle, Advance, txVars, tableVars
  <2>2. CASE ReadHead(r) \/ RegisterCursor(r)
    <3>1. \A h \in {0} \cup CommittedIds : h \in Nat /\ h <= seq
      <4>1. \A t \in landed : id[t] \in Nat /\ id[t] <= seq
        BY Zenon DEF BarrierDiscipline, TypeOK, TxTypeOK, TableTypeOK
      <4>2. seq \in Nat
        BY Zenon DEF TypeOK, TableTypeOK
      <4> QED
        BY <4>1, <4>2, SMTT(30) DEF CommittedIds
    <3>2. PICK h \in {0} \cup CommittedIds : head' = [head EXCEPT ![r] = h]
      BY <2>2, Zenon DEF ReadHead, RegisterCursor
    <3> QED
      BY <1>6, <2>1, <2>2, <3>1, <3>2, ZenonT(30)
         DEF ReadHead, RegisterCursor, BarrierDiscipline, Exclusive, TypeOK, ReaderTypeOK
  <2>3. CASE TakeBarrier(r)
    BY <1>6, <2>1, <2>3, Zenon DEF TakeBarrier, BarrierDiscipline, TypeOK, ReaderTypeOK
  <2>4. CASE \/ StartRegistration(r) \/ Poll(r) \/ ReadPage(r) \/ Handle(r)
             \/ Advance(r) \/ Abandon(r)
    <3>1. head' = head /\ \A q \in Reader : rpc'[q] \in Exclusive => rpc[q] \in Exclusive
      BY <2>4, Zenon DEF StartRegistration, Poll, ReadPage, Handle, Advance, Abandon,
                  Exclusive, TypeOK, ReaderTypeOK
    <3> QED
      BY <2>1, <3>1, Zenon DEF BarrierDiscipline
  <2> QED
    BY <1>6, <2>2, <2>3, <2>4, Zenon DEF ReaderStep
<1> QED
  BY <1>1, <1>2, <1>3, <1>4, <1>5, <1>6, Zenon DEF Next

-----------------------------------------------------------------------------
\* A step that leaves labels, plans, locks and tables alone keeps the lock
\* discipline.
LEMMA LockKept ==
    ASSUME LockDiscipline, UNCHANGED <<pc, op, locked, moved, landed, deleted, next>>
    PROVE  LockDiscipline'
<1>1. RowLocks'
  <2>1. Live' = Live
    BY Zenon DEF Live
  <2> QED
    BY <2>1, Zenon DEF LockDiscipline, RowLocks
<1>2. LaneLocks'
  BY Zenon DEF LockDiscipline, LaneLocks
<1>3. KeyLocks'
  BY Zenon DEF LockDiscipline, KeyLocks, KeyHolder
<1> QED
  BY <1>1, <1>2, <1>3, Zenon DEF LockDiscipline

\* So does a transaction that moves on while the facts of its new label hold.
LEMMA LockGoto ==
    ASSUME TypeOK, LockDiscipline,
           UNCHANGED <<op, locked, moved, landed, deleted, next>>,
           NEW s \in Attempt, NEW label, Goto(s, label),
           pc[s] \in Inserted <=> label \in Inserted,
           label \in {"offsets", "committing"} => locked[s] = op[s].old,
           label = "committing" => \A l \in Lane : op[s].offs[l] # NoRange => l \in moved[s]
    PROVE  LockDiscipline'
<1>1. Live' = Live /\ \A k : KeyHolder(k)' = KeyHolder(k)
  BY Zenon DEF Live, KeyHolder
<1>2. \A t \in Attempt : pc'[t] \in Inserted <=> pc[t] \in Inserted
  BY Zenon DEF Goto, TypeOK, TxTypeOK
<1>3. \A t \in Attempt \ {s} : pc'[t] = pc[t]
  BY Zenon DEF Goto, TypeOK, TxTypeOK
<1>4. pc'[s] = label
  BY Zenon DEF Goto, TypeOK, TxTypeOK
<1>5. RowLocks'
  BY <1>1, <1>2, <1>3, <1>4, Zenon DEF LockDiscipline, RowLocks
<1>6. LaneLocks'
  BY <1>2, <1>3, <1>4, Zenon DEF LockDiscipline, LaneLocks
<1>7. KeyLocks'
  BY <1>1, <1>2, Zenon DEF LockDiscipline, KeyLocks
<1> QED
  BY <1>5, <1>6, <1>7, Zenon DEF LockDiscipline

\* And a transaction that ends without touching the tables.
LEMMA LockEnd ==
    ASSUME TypeOK, LockDiscipline, UNCHANGED <<op, landed, deleted, next>>,
           NEW s \in Attempt, EndTx(s)
    PROVE  LockDiscipline'
<1>1. Live' = Live /\ \A k : KeyHolder(k)' = KeyHolder(k)
  BY Zenon DEF Live, KeyHolder
<1>2. \A t \in Attempt \ {s} : pc'[t] = pc[t] /\ locked'[t] = locked[t] /\ moved'[t] = moved[t]
  BY Zenon DEF EndTx, Goto, TypeOK, TxTypeOK
<1>3. pc'[s] = "done" /\ locked'[s] = {} /\ moved'[s] = {}
  BY Zenon DEF EndTx, Goto, TypeOK, TxTypeOK
<1>4. RowLocks'
  BY <1>1, <1>2, <1>3 DEF LockDiscipline, RowLocks, Inserted
<1>5. LaneLocks'
  BY <1>2, <1>3, ZenonT(30) DEF LockDiscipline, LaneLocks, Inserted
<1>6. KeyLocks'
  BY <1>1, <1>2, <1>3, Zenon DEF LockDiscipline, KeyLocks, Inserted
<1> QED
  BY <1>4, <1>5, <1>6, Zenon DEF LockDiscipline

\* The discipline of row, lane and key locks is kept by every step.
LEMMA NextLock ==
    ASSUME TypeOK, BarrierDiscipline, LockDiscipline, [Next]_vars
    PROVE  LockDiscipline'
<1>1. CASE UNCHANGED vars
  BY <1>1, LockKept, Zenon DEF vars, txVars, tableVars
<1>2. ASSUME NEW s \in Attempt, NEW o \in Plans, Begin(s, o)
      PROVE  LockDiscipline'
  <2>1. s \notin landed /\ locked[s] = {} /\ moved[s] = {}
    BY <1>2, Zenon DEF Begin, BarrierDiscipline, LockDiscipline, RowLocks, LaneLocks, Inserted
  <2>2. Live' = Live /\ \A k : KeyHolder(k)' = KeyHolder(k)
    BY <1>2, <2>1, Zenon DEF Begin, Live, KeyHolder, TypeOK, TxTypeOK, TableTypeOK, tableVars
  <2>3. pc'[s] = "begin" /\ \A t \in Attempt \ {s} : pc'[t] = pc[t] /\ op'[t] = op[t]
    BY <1>2, Zenon DEF Begin, Goto, TypeOK, TxTypeOK
  <2>4. UNCHANGED <<locked, moved, next>>
    BY <1>2, Zenon DEF Begin, tableVars
  <2>5. RowLocks'
    BY <2>1, <2>2, <2>3, <2>4, ZenonT(30) DEF LockDiscipline, RowLocks, Inserted
  <2>6. LaneLocks'
    BY <2>1, <2>3, <2>4 DEF LockDiscipline, LaneLocks, Inserted
  <2>7. KeyLocks'
    BY <2>1, <2>2, <2>3, <2>4, ZenonT(30) DEF LockDiscipline, KeyLocks, Inserted
  <2> QED
    BY <2>5, <2>6, <2>7, Zenon DEF LockDiscipline
<1>3. ASSUME NEW s \in Attempt, Statement(s)
      PROVE  LockDiscipline'
  <2>1. CASE \/ ShareBarrier(s) \/ ReconcileFirst(s) \/ Fence(s) \/ AllocateId(s)
             \/ AnswerConflict(s)
    BY <1>3, <2>1, LockKept, LockGoto, Zenon
       DEF ShareBarrier, ReconcileFirst, Fence, AllocateId, AnswerConflict,
           ReturnReconciled, Return, Inserted, tableVars
  <2>2. CASE InsertCommit(s)
    <3>1. CASE op[s].key # NoKey /\ Reconciled(op[s].key)
      BY <1>3, <2>2, <3>1, LockGoto, Zenon DEF InsertCommit, Inserted, tableVars
    <3>2. CASE ~(op[s].key # NoKey /\ Reconciled(op[s].key))
      <4>1. Live' = Live /\ \A k : KeyHolder(k)' = KeyHolder(k)
        BY <2>2, Zenon DEF InsertCommit, Live, KeyHolder, tableVars
      <4>2. pc'[s] = "apply" /\ \A t \in Attempt \ {s} : pc'[t] = pc[t]
        BY <1>3, <2>2, <3>2, Zenon DEF InsertCommit, Goto, TypeOK, TxTypeOK
      <4>3. pc[s] = "insert" /\ UNCHANGED <<op, locked, moved, next>>
        BY <2>2, Zenon DEF InsertCommit, tableVars
      <4>4. op[s].key # NoKey =>
              /\ KeyHolder(op[s].key) = {}
              /\ \A t \in Attempt \ {s} : pc[t] \in Inserted => op[t].key # op[s].key
        BY <2>2, <3>2, ZenonT(30) DEF InsertCommit, Reconciled
      <4>5. RowLocks'
        BY <4>1, <4>2, <4>3, ZenonT(30) DEF LockDiscipline, RowLocks, Inserted
      <4>6. LaneLocks'
        BY <4>2, <4>3, ZenonT(30) DEF LockDiscipline, LaneLocks, Inserted
      <4>7. KeyLocks'
        <5>1. KeyLocks
          BY Zenon DEF LockDiscipline
        <5>2. ASSUME NEW u \in Attempt, pc'[u] \in Inserted, op[u].key # NoKey
              PROVE  /\ KeyHolder(op[u].key) = {}
                     /\ \A t \in Attempt \ {u} : pc'[t] \in Inserted => op[t].key # op[u].key
          <6>1. CASE u = s
            BY <4>2, <4>4, <5>2, <6>1, Zenon
          <6>2. CASE u # s
            <7>1. pc[u] \in Inserted
              BY <4>2, <5>2, <6>2, Zenon
            <7>2. op[s].key # op[u].key
              BY <4>4, <5>2, <6>2, <7>1, Zenon
            <7>3. /\ KeyHolder(op[u].key) = {}
                  /\ \A t \in Attempt \ {u} : pc[t] \in Inserted => op[t].key # op[u].key
              BY <5>1, <5>2, <7>1, Zenon DEF KeyLocks
            <7> QED
              BY <4>2, <7>2, <7>3, Zenon
          <6> QED
            BY <6>1, <6>2, Zenon
        <5>3. \A u \in Attempt : KeyHolder(op[u].key)' = KeyHolder(op[u].key)
          BY <4>1, <4>3, Zenon
        <5> QED
          BY <4>3, <5>2, <5>3, Zenon DEF KeyLocks
      <4> QED
        BY <4>5, <4>6, <4>7, Zenon DEF LockDiscipline
    <3> QED
      BY <3>1, <3>2, Zenon
  <2>3. CASE \E p \in Attempt : TombstonePart(s, p)
    <3> PICK p \in Attempt : TombstonePart(s, p)
      BY <2>3, Zenon
    <3>1. CASE Return(s, "conflict", Nobody)
      BY <3>1, LockKept, Zenon DEF Return, tableVars
    <3>2. CASE p \in Live
      <4>1. /\ locked'[s] = locked[s] \cup {p}
            /\ \A t \in Attempt \ {s} : locked'[t] = locked[t]
            /\ UNCHANGED <<pc, op, moved, landed, deleted, next>>
        BY <1>3, <3>2, Zenon DEF TombstonePart, TypeOK, TxTypeOK, tableVars
      <4>2. Live' = Live /\ \A k : KeyHolder(k)' = KeyHolder(k)
        BY <4>1, Zenon DEF Live, KeyHolder
      <4>3. pc[s] = "apply" /\ p \in op[s].old /\ \A t \in Attempt \ {s} : p \notin locked[t]
        BY Zenon DEF TombstonePart
      <4>4. RowLocks'
        BY <3>2, <4>1, <4>2, <4>3, SMTT(30) DEF LockDiscipline, RowLocks, Inserted
      <4>5. LaneLocks'
        BY <4>1, Zenon DEF LockDiscipline, LaneLocks
      <4>6. KeyLocks'
        BY <4>1, <4>2, ZenonT(30) DEF LockDiscipline, KeyLocks
      <4> QED
        BY <4>4, <4>5, <4>6, Zenon DEF LockDiscipline
    <3> QED
      BY <3>1, <3>2, Zenon DEF TombstonePart
  <2>4. CASE InsertParts(s)
    BY <1>3, <2>4, LockGoto, ZenonT(30) DEF InsertParts, Inserted, tableVars
  <2>5. CASE \E l \in Lane : MoveOffset(s, l)
    <3> PICK l \in Lane : MoveOffset(s, l)
      BY <2>5, Zenon
    <3>1. CASE Return(s, "race", Nobody)
      BY <3>1, LockKept, Zenon DEF Return, tableVars
    <3>2. CASE next[l] <= op[s].offs[l].first
      <4>1. /\ moved'[s] = moved[s] \cup {l}
            /\ \A t \in Attempt \ {s} : moved'[t] = moved[t]
            /\ UNCHANGED <<pc, op, locked, landed, deleted, next>>
        BY <1>3, <3>2, ZenonT(30) DEF MoveOffset, TypeOK, TxTypeOK, tableVars
      <4>2. Live' = Live /\ \A k : KeyHolder(k)' = KeyHolder(k)
        BY <4>1, Zenon DEF Live, KeyHolder
      <4>3. /\ pc[s] = "offsets" /\ op[s].offs[l] # NoRange
            /\ \A t \in Attempt \ {s} : l \notin moved[t]
        BY Zenon DEF MoveOffset
      <4>4. \A t \in Attempt : \A m \in moved'[t] :
               op[t].offs[m] # NoRange /\ next[m] <= op[t].offs[m].first
        BY <3>2, <4>1, <4>3, ZenonT(30) DEF LockDiscipline, LaneLocks
      <4>5. \A t, u \in Attempt : t # u => moved'[t] \cap moved'[u] = {}
        BY <4>1, <4>3, SMTT(30) DEF LockDiscipline, LaneLocks
      <4>6. \A t \in Attempt :
              /\ moved'[t] # {} => pc[t] \in Inserted
              /\ moved[t] \subseteq moved'[t]
        BY <4>1, <4>3, Zenon DEF LockDiscipline, LaneLocks, Inserted
      <4>7. RowLocks'
        BY <4>1, <4>2, ZenonT(30) DEF LockDiscipline, RowLocks
      <4>8. LaneLocks'
        BY <4>1, <4>4, <4>5, <4>6, ZenonT(30) DEF LockDiscipline, LaneLocks
      <4>9. KeyLocks'
        BY <4>1, <4>2, Zenon DEF LockDiscipline, KeyLocks
      <4> QED
        BY <4>7, <4>8, <4>9, Zenon DEF LockDiscipline
    <3> QED
      BY <3>1, <3>2, ZenonT(30) DEF MoveOffset
  <2>6. CASE SendCommit(s)
    <3>1. locked[s] = op[s].old
      BY <1>3, <2>6, Zenon DEF SendCommit, LockDiscipline, RowLocks
    <3> QED
      BY <1>3, <2>6, <3>1, LockGoto, ZenonT(30) DEF SendCommit, Inserted, tableVars
  <2> QED
    BY <1>3, <2>1, <2>2, <2>3, <2>4, <2>5, <2>6, Zenon DEF Statement
<1>4. ASSUME NEW s \in Attempt, Ending(s)
      PROVE  LockDiscipline'
  <2>1. CASE CommitDurable(s)
    <3>1. \A t \in Attempt \ {s} : pc'[t] = pc[t] /\ locked'[t] = locked[t] /\ moved'[t] = moved[t]
      BY <1>4, <2>1, Zenon DEF CommitDurable, EndTx, Goto, TypeOK, TxTypeOK
    <3>2. pc'[s] = "done" /\ locked'[s] = {} /\ moved'[s] = {}
      BY <1>4, <2>1, ZenonT(30) DEF CommitDurable, EndTx, Goto, TypeOK, TxTypeOK
    <3>3. op' = op /\ landed' = landed \cup {s}
      BY <2>1, Zenon DEF CommitDurable
    <3>4. \A t \in Attempt \ {s} : locked[t] \subseteq Live'
      BY <1>4, <2>1, Zenon DEF CommitDurable, LockDiscipline, RowLocks, Live, TypeOK, TxTypeOK
    <3>5. \A t \in Attempt \ {s}, l \in Lane : l \in moved[t] => next'[l] = next[l]
      <4>1. \A t \in Attempt \ {s}, l \in Lane : l \in moved[t] => l \notin moved[s]
        BY <1>4, Zenon DEF LockDiscipline, LaneLocks
      <4>2. \A l \in Lane : l \notin moved[s] => next'[l] = next[l]
        BY <2>1, ZenonT(30) DEF CommitDurable
      <4> QED
        BY <4>1, <4>2, Zenon
    <3>6. \A t \in Attempt \ {s} : pc[t] \in Inserted /\ op[t].key # NoKey
                                     => KeyHolder(op[t].key)' = {}
      BY <1>4, <2>1, <3>3, ZenonT(30) DEF CommitDurable, LockDiscipline, KeyLocks, KeyHolder, Inserted
    <3>7. \A t \in Attempt : moved[t] \subseteq Lane
      BY Zenon DEF TypeOK, TxTypeOK
    <3>8. RowLocks'
      <4>1. \A t, u \in Attempt : t # u => locked'[t] \cap locked'[u] = {}
        BY <3>1, <3>2, Zenon DEF LockDiscipline, RowLocks
      <4>2. \A t \in Attempt : locked'[t] \subseteq op[t].old \cap Live'
        BY <3>1, <3>2, <3>4, ZenonT(30) DEF LockDiscipline, RowLocks
      <4>3. \A t \in Attempt :
              /\ locked'[t] # {} => pc'[t] \in Inserted
              /\ pc'[t] \in {"offsets", "committing"} => locked'[t] = op[t].old
        BY <3>1, <3>2, ZenonT(30) DEF LockDiscipline, RowLocks
      <4> QED
        BY <3>3, <4>1, <4>2, <4>3, ZenonT(30) DEF RowLocks
    <3>9. LaneLocks'
      <4>1. \A t, u \in Attempt : t # u => moved'[t] \cap moved'[u] = {}
        BY <3>1, <3>2, Zenon DEF LockDiscipline, LaneLocks
      <4>2. ASSUME NEW t \in Attempt, t # s
            PROVE  /\ moved'[t] # {} => pc'[t] \in Inserted
                   /\ \A l \in moved'[t] :
                         op[t].offs[l] # NoRange /\ next'[l] <= op[t].offs[l].first
                   /\ pc'[t] = "committing" =>
                         \A l \in Lane : op[t].offs[l] # NoRange => l \in moved'[t]
        BY <3>1, <3>5, <3>7, <4>2 DEF LockDiscipline, LaneLocks
      <4> QED
        BY <3>2, <3>3, <4>1, <4>2, Zenon DEF LaneLocks
    <3>10. KeyLocks'
      BY <3>1, <3>2, <3>3, <3>6, Zenon DEF LockDiscipline, KeyLocks, Inserted
    <3> QED
      BY <3>8, <3>9, <3>10, Zenon DEF LockDiscipline
  <2>2. CASE CommitLost(s) \/ Rollback(s)
    BY <1>4, <2>2, LockEnd, ZenonT(30) DEF CommitLost, Rollback, tableVars
  <2>3. CASE LoseConnection(s) \/ Fail(s)
    BY <1>4, <2>3, LockKept, ZenonT(30) DEF LoseConnection, Fail, Return, tableVars
  <2> QED
    BY <1>4, <2>1, <2>2, <2>3, Zenon DEF Ending
<1>5. ASSUME NEW s \in Attempt, LookupOperation(s)
      PROVE  LockDiscipline'
  BY <1>5, LockKept, Zenon DEF LookupOperation, tableVars
<1>6. ASSUME NEW r \in Reader, ReaderStep(r) \/ Abandon(r)
      PROVE  LockDiscipline'
  <2>1. UNCHANGED <<txVars, tableVars>>
    BY <1>6, Zenon DEF ReaderStep, Abandon, StartRegistration, Poll, TakeBarrier, ReadHead,
                RegisterCursor, ReadPage, Handle, Advance
  <2> QED
    BY <2>1, LockKept, Zenon DEF txVars, tableVars
<1> QED
  BY <1>1, <1>2, <1>3, <1>4, <1>5, <1>6, Zenon DEF Next

-----------------------------------------------------------------------------
Discipline == TypeOK /\ BarrierDiscipline /\ LockDiscipline

\* The catalog starts disciplined.
LEMMA InitDiscipline == Init => Discipline
<1> SUFFICES ASSUME Init PROVE Discipline
  BY Zenon
<1>1. NoOp \in Op
  BY Zenon DEF NoOp, DropOp, Op, NoOffsets
<1>2. TypeOK
  <2>1. TxTypeOK
    BY <1>1, Zenon DEF Init, TxTypeOK, NoReply, Tags
  <2>2. TableTypeOK /\ ReaderTypeOK
    BY Zenon DEF Init, TableTypeOK, ReaderTypeOK
  <2> QED
    BY <2>1, <2>2, Zenon DEF TypeOK
<1>3. BarrierDiscipline
  BY DEF Init, BarrierDiscipline, Sharing, Numbered, Inserted, Exclusive
<1>4. LockDiscipline
  BY Zenon DEF Init, LockDiscipline, RowLocks, LaneLocks, KeyLocks, Inserted
<1> QED
  BY <1>2, <1>3, <1>4, Zenon DEF Discipline

\* The inductive invariant: types, the barrier and the locks hold throughout.
THEOREM AlwaysDiscipline == Spec => []Discipline
<1>1. Discipline /\ [Next]_vars => Discipline'
  BY NextTyped, NextBarrier, NextLock, Zenon DEF Discipline
<1> QED
  BY <1>1, InitDiscipline, PTL DEF Spec

\* Type correctness of every reachable state.
THEOREM TypeCorrect == Spec => []TypeOK
<1>1. Discipline => TypeOK
  BY Zenon DEF Discipline
<1> QED
  BY <1>1, AlwaysDiscipline, PTL

\* Transactions keep the facts they checked true until COMMIT lands.
THEOREM LocksHeld == Spec => []LockDiscipline
<1>1. Discipline => LockDiscipline
  BY Zenon DEF Discipline
<1> QED
  BY <1>1, AlwaysDiscipline, PTL

\* Only COMMIT changes what is durable.
LEMMA DurableKept ==
    ASSUME [Next]_vars, ~(\E s \in Attempt : CommitDurable(s))
    PROVE  UNCHANGED <<landed, deleted, next>>
<1>1. ASSUME NEW s \in Attempt, Statement(s) PROVE UNCHANGED <<landed, deleted, next>>
  BY <1>1, Zenon DEF Statement, ShareBarrier, ReconcileFirst, ReturnReconciled, Return,
     Fence, AllocateId, InsertCommit, AnswerConflict, TombstonePart, InsertParts,
     MoveOffset, SendCommit, tableVars
<1>2. ASSUME NEW s \in Attempt, Ending(s) PROVE UNCHANGED <<landed, deleted, next>>
  BY <1>2, Zenon DEF Ending, Return, CommitLost, LoseConnection, Fail, Rollback, tableVars
<1>3. ASSUME NEW s \in Attempt, LookupOperation(s) \/ \E o \in Plans : Begin(s, o)
      PROVE  UNCHANGED <<landed, deleted, next>>
  BY <1>3, Zenon DEF LookupOperation, Begin, tableVars
<1>4. ASSUME NEW r \in Reader, ReaderStep(r) \/ Abandon(r)
      PROVE  UNCHANGED <<landed, deleted, next>>
  BY <1>4, Zenon DEF ReaderStep, Abandon, StartRegistration, Poll, TakeBarrier, ReadHead,
     RegisterCursor, ReadPage, Handle, Advance, tableVars
<1>5. CASE UNCHANGED vars
  BY <1>5, Zenon DEF vars, tableVars
<1> QED
  BY <1>1, <1>2, <1>3, <1>4, <1>5, Zenon DEF Next

\* The feed contract of issue 0015: no commit becomes visible at or below a head
\* that feed_head or changes_since has already returned.
THEOREM FeedPrefix == Spec => PrefixClosed
<1>1. ASSUME Discipline, [Next]_vars
      PROVE  [\A s \in landed' \ landed, r \in Reader : head[r] < id'[s]]_vars
  <2> SUFFICES ASSUME NEW s \in landed' \ landed, NEW r \in Reader
               PROVE  head[r] < id'[s]
    BY Zenon
  <2>1. PICK u \in Attempt : CommitDurable(u)
    BY <1>1, DurableKept, Zenon
  <2>2. s = u /\ id' = id /\ pc[u] = "committing"
    BY <2>1, Zenon DEF CommitDurable
  <2> QED
    BY <1>1, <2>1, <2>2, Zenon DEF Discipline, BarrierDiscipline, Numbered, Inserted
<1> QED
  BY <1>1, AlwaysDiscipline, PTL DEF Spec, PrefixClosed

-----------------------------------------------------------------------------
\* Apart from COMMIT and the head reads, no step changes the atomic log.
LEMMA QuietSteps ==
    ASSUME Discipline, [Next]_vars,
           ~(\E s \in Attempt : CommitDurable(s)),
           ~(\E r \in Reader : ReadHead(r) \/ RegisterCursor(r))
    PROVE  UNCHANGED <<LandedLog, deleted, next, head>>
<1>1. UNCHANGED <<landed, deleted, next, head>>
  <2>1. ASSUME NEW s \in Attempt, Statement(s) PROVE UNCHANGED head
    BY <2>1, Zenon DEF Statement, ShareBarrier, ReconcileFirst, ReturnReconciled, Return,
       Fence, AllocateId, InsertCommit, AnswerConflict, TombstonePart, InsertParts,
       MoveOffset, SendCommit, readerVars
  <2>2. ASSUME NEW s \in Attempt, Ending(s) PROVE UNCHANGED head
    BY <2>2, Zenon DEF Ending, Return, CommitLost, LoseConnection, Fail, Rollback, readerVars
  <2>3. ASSUME NEW s \in Attempt, LookupOperation(s) \/ \E o \in Plans : Begin(s, o)
        PROVE  UNCHANGED head
    BY <2>3, Zenon DEF LookupOperation, Begin, readerVars
  <2>4. ASSUME NEW r \in Reader, ReaderStep(r) \/ Abandon(r) PROVE UNCHANGED head
    BY <2>4, Zenon DEF ReaderStep, Abandon, StartRegistration, Poll, TakeBarrier,
       ReadPage, Handle, Advance
  <2>5. ASSUME UNCHANGED vars PROVE UNCHANGED head
    BY <2>5, Zenon DEF vars, readerVars
  <2>6. UNCHANGED head
    BY <2>1, <2>2, <2>3, <2>4, <2>5, Zenon DEF Next
  <2> QED
    BY <2>6, DurableKept, Zenon
<1>2. \A s \in landed : op'[s] = op[s] /\ id'[s] = id[s]
  <2>1. CASE UNCHANGED <<op, id>>
    BY <2>1, Zenon
  <2>2. ASSUME NEW s \in Attempt, NEW o, Begin(s, o)
        PROVE  s \notin landed /\ id' = id /\ op' = [op EXCEPT ![s] = o]
    BY <2>2, Zenon DEF Discipline, BarrierDiscipline, Begin
  <2>3. ASSUME NEW s \in Attempt, AllocateId(s)
        PROVE  s \notin landed /\ op' = op /\ id' = [id EXCEPT ![s] = seq + 1]
    BY <2>3, Zenon DEF Discipline, BarrierDiscipline, AllocateId
  <2>4. \/ UNCHANGED <<op, id>>
        \/ \E s \in Attempt : AllocateId(s) \/ \E o \in Plans : Begin(s, o)
    <3>1. ASSUME NEW s \in Attempt, Statement(s) PROVE AllocateId(s) \/ UNCHANGED <<op, id>>
      BY <3>1, Zenon DEF Statement, ShareBarrier, ReconcileFirst, ReturnReconciled, Return,
         Fence, InsertCommit, AnswerConflict, TombstonePart, InsertParts, MoveOffset,
         SendCommit
    <3>2. ASSUME NEW s \in Attempt, Ending(s) \/ LookupOperation(s)
          PROVE  UNCHANGED <<op, id>>
      BY <3>2, Zenon DEF Ending, LookupOperation, Return, CommitLost, LoseConnection, Fail,
         Rollback
    <3>3. ASSUME NEW r \in Reader, ReaderStep(r) \/ Abandon(r) PROVE UNCHANGED <<op, id>>
      BY <3>3, Zenon DEF ReaderStep, Abandon, StartRegistration, Poll, TakeBarrier,
         ReadPage, Handle, Advance, txVars
    <3>4. CASE UNCHANGED vars
      BY <3>4, Zenon DEF vars, txVars
    <3> QED
      BY <3>1, <3>2, <3>3, <3>4, Zenon DEF Next
  <2> QED
    BY <2>1, <2>2, <2>3, <2>4, Zenon DEF Discipline, TypeOK, TxTypeOK, TableTypeOK
<1> QED
  BY <1>1, <1>2, Zenon DEF LandedLog

\* A COMMIT that lands is one Append of the atomic log.
LEMMA CommitAppends ==
    ASSUME Discipline, NEW s \in Attempt, CommitDurable(s)
    PROVE  Log!Next
<1> USE DEF Discipline
<1>1. /\ pc[s] = "committing" /\ op' = op /\ id' = id /\ head' = head
      /\ landed' = landed \cup {s}
  BY Zenon DEF CommitDurable, readerVars
<1>2. s \notin landed
  BY <1>1, Zenon DEF BarrierDiscipline
<1>3. op[s] \in Op /\ id[s] \in Nat
  BY Zenon DEF TypeOK, TxTypeOK
<1>4. /\ LandedLog' = [t \in landed \cup {s} |-> [id |-> id[t], op |-> op[t]]]
      /\ LandedLog'[s] = [id |-> id[s], op |-> op[s]]
      /\ s \in DOMAIN LandedLog'
  BY <1>1, Zenon DEF LandedLog
<1>5. Log!Live = Live /\ Log!Committed = landed
  BY Zenon DEF Log!Live, Log!Committed, Live, LandedLog
<1>6. Log!Admissible(op[s], id[s])
  <2>1. \A t \in landed : LandedLog[t].id # id[s]
    BY <1>1, <1>2, Zenon DEF LandedLog, BarrierDiscipline, TypeOK, TableTypeOK
  <2>2. \A r \in Reader : head[r] < id[s]
    BY <1>1, ZenonT(30) DEF BarrierDiscipline, Numbered, Inserted
  <2>3. op[s].key # NoKey => \A t \in landed : LandedLog[t].op.key # op[s].key
    BY <1>1, Zenon DEF LockDiscipline, KeyLocks, KeyHolder, LandedLog, Inserted
  <2>4. op[s].old \subseteq Live
    BY <1>1, Zenon DEF LockDiscipline, RowLocks
  <2>5. \A l \in Lane : op[s].offs[l] # NoRange => next[l] <= op[s].offs[l].first
    BY <1>1, Zenon DEF LockDiscipline, LaneLocks
  <2> QED
    BY <1>5, <2>1, <2>2, <2>3, <2>4, <2>5, ZenonT(30) DEF Log!Admissible
<1>7. deleted' = [p \in Attempt |-> IF p \in op[s].old THEN s ELSE deleted[p]]
  BY <1>1, Zenon DEF CommitDurable, LockDiscipline, RowLocks
<1>8. next' = [l \in Lane |->
                 IF op[s].offs[l] = NoRange THEN next[l] ELSE op[s].offs[l].last + 1]
  BY <1>1, ZenonT(30) DEF CommitDurable, LockDiscipline, LaneLocks
<1>9. LandedLog' = [t \in landed \cup {s} |->
                      IF t = s THEN [id |-> id[s], op |-> op[s]] ELSE LandedLog[t]]
  BY <1>4, Zenon DEF LandedLog
<1>10. Log!Append(s, id[s], op[s])
  BY <1>1, <1>2, <1>5, <1>6, <1>7, <1>8, <1>9, Zenon DEF Log!Append
<1>11. Log!Op = Op
  BY Zenon DEF Log!Op, Op, Log!Identity, Identity, Log!Range, Range
<1> QED
  BY <1>3, <1>4, <1>10, <1>11, ZenonT(30) DEF Log!Next

\* A head read is one Observe of the atomic log.
LEMMA HeadObserves ==
    ASSUME Discipline, NEW r \in Reader, ReadHead(r) \/ RegisterCursor(r)
    PROVE  Log!Next
<1>1. UNCHANGED <<landed, deleted, next, op, id>>
  BY Zenon DEF ReadHead, RegisterCursor, txVars, tableVars
<1>2. PICK h \in {0} \cup CommittedIds :
        (\A i \in CommittedIds : i <= h) /\ head' = [head EXCEPT ![r] = h]
  BY Zenon DEF ReadHead, RegisterCursor, IsHead
<1>3. Log!Committed = landed /\ \A t \in landed : LandedLog[t].id = id[t]
  BY Zenon DEF Log!Committed, LandedLog
<1>4. LandedLog' = LandedLog
  BY <1>1, Zenon DEF LandedLog
<1>5. Log!Observe(r)
  BY <1>1, <1>2, <1>3, <1>4, Zenon DEF Log!Observe, CommittedIds
<1> QED
  BY <1>5, Zenon DEF Log!Next

\* The statement-level catalog implements the atomic log of CatalogLog.
THEOREM Refinement == Spec => AtomicLog
<1>1. Init => Log!Init
  BY Zenon DEF Init, Log!Init, LandedLog
<1>2. Discipline /\ [Next]_vars => [Log!Next]_(Log!vars)
  BY QuietSteps, CommitAppends, HeadObserves, Zenon DEF Log!vars
<1> QED
  BY <1>1, <1>2, AlwaysDiscipline, PTL DEF Spec, AtomicLog, Log!Spec

-----------------------------------------------------------------------------
(* Outcomes. *)

\* Every operation is one of the three write paths, planned over landed parts.
Planned(o) ==
    \/ \E a \in Adds : o = AddOp(a)
    \/ \E ps \in SUBSET landed : \/ o = CompactionOp(ps, RowsOf(ps))
                                 \/ o = DeleteKeyOp(ps, RowsOf(ps))
                                 \/ o = DropOp(ps)

Refused == {"already", "conflict", "race", "leaselost", "collision", "error"}

\* What attempt s was told, and why no later step makes it untrue.
Told(s) ==
    /\ reply[s].tag # "none" \/ lookup[s] # "none" => pc[s] # "idle"
    /\ reply[s].tag = "committed" => s \in landed
    /\ reply[s].tag = "already" =>
          /\ reply[s].by \in landed
          /\ op[reply[s].by].key = op[s].key
          /\ op[reply[s].by].rows = op[s].rows
    /\ reply[s].tag \in Refused => s \notin landed /\ pc[s] # "committing"
    /\ lookup[s] = "committed" => KeyHolder(op[s].key) # {}

OutcomeInv == \A s \in Attempt : Planned(op[s]) /\ Told(s)

\* Only landed parts are tombstoned, and every row on record was added.
RowsInv ==
    /\ \A p \in Attempt : deleted[p] # Nobody => p \in landed
    /\ RowsOf(landed) \subseteq Added
    /\ RowAccounting

\* A poll in progress.
Polled == {"polling", "reads", "paging", "handling", "advancing"}

\* FeedComplete, said of commit ids.
Covered ==
    /\ cursor # NoCursor => \A i \in CommittedIds : i <= cursor => i \in settled
    /\ \A i, j \in CommittedIds : i < j /\ j \in settled => i \in settled

\* Nothing is settled, and no cursor stands, above every head shown: what is
\* still to land lies above all of them.
Shown ==
    /\ \A r \in Reader : head[r] \in {0} \cup CommittedIds
    /\ \A i \in settled : \E r \in Reader : i <= head[r]
    /\ cursor # NoCursor => \E r \in Reader : cursor <= head[r]

\* A poll started from a cursor that has not moved back, and the event in hand
\* is the first commit after it.
Polls(r) ==
    /\ rpc[r] \in Polled => cursor # NoCursor /\ after[r] <= cursor
    /\ rpc[r] \in {"handling", "advancing"} =>
          /\ event[r] \in CommittedIds
          /\ event[r] <= head[r]
          /\ \A i \in CommittedIds : i <= after[r] \/ event[r] <= i
    /\ rpc[r] = "advancing" => event[r] \in settled

FeedInv == Covered /\ Shown /\ \A r \in Reader : Polls(r)

CatalogInv == OutcomeInv /\ ExactlyOnce /\ RowsInv /\ FeedInv

\* Only Begin gives an attempt its operation and only AllocateId its id.
LEMMA OpIdSteps ==
    ASSUME [Next]_vars
    PROVE  \/ UNCHANGED <<op, id>>
           \/ \E s \in Attempt : AllocateId(s) \/ \E o \in Plans : Begin(s, o)
<1>1. ASSUME NEW s \in Attempt, Statement(s) PROVE AllocateId(s) \/ UNCHANGED <<op, id>>
  BY <1>1, Zenon DEF Statement, ShareBarrier, ReconcileFirst, ReturnReconciled, Return,
     Fence, InsertCommit, AnswerConflict, TombstonePart, InsertParts, MoveOffset,
     SendCommit
<1>2. ASSUME NEW s \in Attempt, Ending(s) \/ LookupOperation(s)
      PROVE  UNCHANGED <<op, id>>
  BY <1>2, Zenon DEF Ending, LookupOperation, Return, CommitDurable, CommitLost,
     LoseConnection, Fail, Rollback
<1>3. ASSUME NEW r \in Reader, ReaderStep(r) \/ Abandon(r) PROVE UNCHANGED <<op, id>>
  BY <1>3, Zenon DEF ReaderStep, Abandon, StartRegistration, Poll, TakeBarrier, ReadHead,
     RegisterCursor, ReadPage, Handle, Advance, txVars
<1>4. CASE UNCHANGED vars
  BY <1>4, Zenon DEF vars, txVars
<1> QED
  BY <1>1, <1>2, <1>3, <1>4, Zenon DEF Next

\* What has landed stays, with the operation and the id it landed with.
LEMMA LandedStays ==
    ASSUME Discipline, [Next]_vars
    PROVE  /\ landed \subseteq landed'
           /\ \A s \in landed : s \in Attempt /\ op'[s] = op[s] /\ id'[s] = id[s]
<1>1. landed \subseteq landed'
  <2>1. ASSUME NEW s \in Attempt, CommitDurable(s) PROVE landed \subseteq landed'
    BY <2>1, Zenon DEF CommitDurable
  <2> QED
    BY <2>1, DurableKept, Zenon
<1>2. \A s \in landed : op'[s] = op[s] /\ id'[s] = id[s]
  <2>1. CASE UNCHANGED <<op, id>>
    BY <2>1, Zenon
  <2>2. ASSUME NEW s \in Attempt, NEW o, Begin(s, o)
        PROVE  s \notin landed /\ id' = id /\ op' = [op EXCEPT ![s] = o]
    BY <2>2, Zenon DEF Discipline, BarrierDiscipline, Begin
  <2>3. ASSUME NEW s \in Attempt, AllocateId(s)
        PROVE  s \notin landed /\ op' = op /\ id' = [id EXCEPT ![s] = seq + 1]
    BY <2>3, Zenon DEF Discipline, BarrierDiscipline, AllocateId
  <2> QED
    BY <2>1, <2>2, <2>3, OpIdSteps, Zenon DEF Discipline, TypeOK, TxTypeOK, TableTypeOK
<1> QED
  BY <1>1, <1>2, Zenon DEF Discipline, TypeOK, TableTypeOK

\* A plan stays a plan: the rows of the landed parts it was made from never change.
LEMMA PlanStays ==
    ASSUME Discipline, [Next]_vars, NEW o, Planned(o)
    PROVE  Planned(o)'
<1>1. ASSUME NEW ps \in SUBSET landed PROVE RowsOf(ps)' = RowsOf(ps) /\ ps \in SUBSET landed'
  BY LandedStays, Zenon DEF RowsOf
<1>2. CASE \E a \in Adds : o = AddOp(a)
  BY <1>2, Zenon DEF Planned
<1>3. ASSUME NEW ps \in SUBSET landed,
             \/ o = CompactionOp(ps, RowsOf(ps))
             \/ o = DeleteKeyOp(ps, RowsOf(ps))
             \/ o = DropOp(ps)
      PROVE  Planned(o)'
  <2> DEFINE rs == RowsOf(ps)
  <2>1. rs' = rs /\ ps \in SUBSET landed'
    BY <1>1, Zenon
  <2>2. \/ o = CompactionOp(ps, rs) \/ o = DeleteKeyOp(ps, rs) \/ o = DropOp(ps)
    BY <1>3, Zenon
  <2> HIDE DEF rs
  <2>3. \/ o = CompactionOp(ps, rs') \/ o = DeleteKeyOp(ps, rs') \/ o = DropOp(ps)
    BY <2>1, <2>2, Zenon
  <2> QED
    BY <2>1, <2>3, Zenon DEF Planned, rs
<1> QED
  BY <1>2, <1>3, Zenon DEF Planned

\* What a worker submits is a plan over parts that are live, hence landed.
LEMMA PlansPlanned == ASSUME NEW o \in Plans PROVE Planned(o)
<1>1. Live \subseteq landed
  BY Zenon DEF Live
<1>2. {p \in Live : op[p].rows \cap Victim # {}} \in SUBSET landed
  BY <1>1, Zenon
<1> QED
  BY <1>1, <1>2, Zenon DEF Plans, Planned

\* The fields of the four kinds of plan.
LEMMA AddFields ==
    \A a : /\ AddOp(a).kind = "add" /\ AddOp(a).old = {}
           /\ AddOp(a).rows = AddRows[a] /\ AddOp(a).offs = AddRange[a]
           /\ AddOp(a).key = [domain |-> "ingest", parts |-> {}, add |-> a]
BY Zenon DEF AddOp

LEMMA CompactionFields ==
    \A ps, rs : /\ CompactionOp(ps, rs).kind = "replace" /\ CompactionOp(ps, rs).old = ps
                /\ CompactionOp(ps, rs).rows = rs /\ CompactionOp(ps, rs).offs = NoOffsets
                /\ CompactionOp(ps, rs).key =
                      [domain |-> "compaction", parts |-> ps, add |-> NoAdd]
BY Zenon DEF CompactionOp

LEMMA DeleteKeyFields ==
    \A ps, rs : /\ DeleteKeyOp(ps, rs).kind = "replace" /\ DeleteKeyOp(ps, rs).old = ps
                /\ DeleteKeyOp(ps, rs).rows = rs \ Victim /\ DeleteKeyOp(ps, rs).offs = NoOffsets
                /\ DeleteKeyOp(ps, rs).key =
                      [domain |-> "delete-key", parts |-> ps, add |-> NoAdd]
BY Zenon DEF DeleteKeyOp

LEMMA DropFields ==
    \A ps : /\ DropOp(ps).kind = "delete" /\ DropOp(ps).old = ps
            /\ DropOp(ps).rows = {} /\ DropOp(ps).offs = NoOffsets /\ DropOp(ps).key = NoKey
BY Zenon DEF DropOp

\* A plan other than a flush replaces the parts it names and brings no other rows.
LEMMA ReplaceFields ==
    \A o, ps, rs :
        o = CompactionOp(ps, rs) \/ o = DeleteKeyOp(ps, rs) \/ o = DropOp(ps) =>
            o.kind # "add" /\ o.old = ps /\ o.rows \subseteq rs
<1> SUFFICES ASSUME NEW o, NEW ps, NEW rs,
                    o = CompactionOp(ps, rs) \/ o = DeleteKeyOp(ps, rs) \/ o = DropOp(ps)
             PROVE  o.kind # "add" /\ o.old = ps /\ o.rows \subseteq rs
  BY Zenon
<1>1. CASE o = CompactionOp(ps, rs)
  BY <1>1, CompactionFields, Zenon
<1>2. CASE o = DeleteKeyOp(ps, rs)
  BY <1>2, DeleteKeyFields, Zenon
<1>3. CASE o = DropOp(ps)
  BY <1>3, DropFields, Zenon
<1> QED
  BY <1>1, <1>2, <1>3, Zenon

\* Two plans with one key do the same work.
LEMMA KeyNamesWork ==
    ASSUME TypeOK, NEW o, NEW q, Planned(o), Planned(q), o.key = q.key
    PROVE  o.rows = q.rows
<1> DEFINE IngestKey(a) == [domain |-> "ingest", parts |-> {}, add |-> a]
           MergeKey(ps) == [domain |-> "compaction", parts |-> ps, add |-> NoAdd]
           EraseKey(ps) == [domain |-> "delete-key", parts |-> ps, add |-> NoAdd]
           Work(p) == \/ p.key = NoKey /\ p.rows = {}
                      \/ \E a \in Adds : p.key = IngestKey(a) /\ p.rows = AddRows[a]
                      \/ \E ps \in SUBSET landed :
                            \/ p.key = MergeKey(ps) /\ p.rows = RowsOf(ps)
                            \/ p.key = EraseKey(ps) /\ p.rows = RowsOf(ps) \ Victim
<1>1. ASSUME NEW p, Planned(p) PROVE Work(p)
  <2>1. ASSUME NEW a \in Adds, p = AddOp(a) PROVE Work(p)
    BY <2>1, AddFields, ZenonT(30)
  <2>2. ASSUME NEW ps \in SUBSET landed, NEW rs, rs = RowsOf(ps),
               p = CompactionOp(ps, rs) \/ p = DeleteKeyOp(ps, rs) \/ p = DropOp(ps)
        PROVE  Work(p)
    <3>1. CASE p = CompactionOp(ps, rs)
      <4>1. p.key = MergeKey(ps) /\ p.rows = RowsOf(ps)
        BY <2>2, <3>1, CompactionFields, Zenon
      <4> QED
        BY <4>1, Zenon
    <3>2. CASE p = DeleteKeyOp(ps, rs)
      <4>1. p.key = EraseKey(ps) /\ p.rows = RowsOf(ps) \ Victim
        BY <2>2, <3>2, DeleteKeyFields, Zenon
      <4> QED
        BY <4>1, Zenon
    <3>3. CASE p = DropOp(ps)
      BY <3>3, DropFields, Zenon
    <3> QED
      BY <2>2, <3>1, <3>2, <3>3, Zenon
  <2> QED
    BY <1>1, <2>1, <2>2, ZenonT(30) DEF Planned
<1>2. /\ \A a \in Adds : IngestKey(a) # NoKey
      /\ \A ps \in SUBSET landed : MergeKey(ps) # NoKey /\ EraseKey(ps) # NoKey
  <2>1. landed \subseteq Attempt
    BY Zenon DEF TypeOK, TableTypeOK
  <2>2. ASSUME NEW a \in Adds PROVE IngestKey(a) \in Identity
    BY Zenon DEF Identity
  <2>3. ASSUME NEW ps \in SUBSET landed PROVE MergeKey(ps) \in Identity
    BY <2>1, Zenon DEF Identity
  <2>4. ASSUME NEW ps \in SUBSET landed PROVE EraseKey(ps) \in Identity
    BY <2>1, Zenon DEF Identity
  <2> HIDE DEF IngestKey, MergeKey, EraseKey
  <2> QED
    BY <2>2, <2>3, <2>4, SentinelAssumption, Zenon
<1>3. /\ \A a, b : IngestKey(a) = IngestKey(b) => a = b
      /\ \A ps, qs : MergeKey(ps) = MergeKey(qs) => ps = qs
      /\ \A ps, qs : EraseKey(ps) = EraseKey(qs) => ps = qs
      /\ \A a, ps : IngestKey(a) # MergeKey(ps) /\ IngestKey(a) # EraseKey(ps)
      /\ \A ps, qs : MergeKey(ps) # EraseKey(qs)
  BY Zenon
<1>4. Work(o) /\ Work(q)
  BY <1>1, ZenonT(30)
<1> HIDE DEF IngestKey, MergeKey, EraseKey
<1> QED
  BY <1>2, <1>3, <1>4, Zenon

-----------------------------------------------------------------------------
\* An attempt that hears nothing and starts nothing new keeps what it was told.
LEMMA ToldKept ==
    ASSUME Discipline, [Next]_vars, NEW t \in Attempt, Told(t),
           reply'[t] = reply[t], lookup'[t] = lookup[t],
           op'[t] = op[t] \/ pc[t] = "idle",
           pc'[t] = pc[t] \/ pc'[t] # "idle",
           pc'[t] = "committing" => pc[t] = "committing" \/ Connected(t),
           t \in landed' => t \in landed \/ pc[t] = "committing"
    PROVE  Told(t)'
<1>1. CASE pc[t] = "idle"
  BY <1>1, Zenon DEF Told, Refused
<1>2. CASE pc[t] # "idle"
  <2>1. op'[t] = op[t] /\ pc'[t] # "idle"
    BY <1>2, ZenonT(30)
  <2>2. reply[t].tag = "already" => op'[reply[t].by] = op[reply[t].by]
    BY LandedStays, ZenonT(30) DEF Told
  <2>3. KeyHolder(op[t].key) # {} => KeyHolder(op[t].key)' # {}
    BY <2>1, LandedStays, Zenon DEF KeyHolder
  <2>4. reply[t].tag \in Refused => t \notin landed' /\ pc'[t] # "committing"
    BY ZenonT(30) DEF Told, Refused, Connected
  <2> QED
    BY <2>1, <2>2, <2>3, <2>4, LandedStays, ZenonT(30) DEF Told
<1> QED
  BY <1>1, <1>2, Zenon

\* A statement nobody hears of, and a rollback, leave every outcome true.
LEMMA ToldMute ==
    ASSUME Discipline, [Next]_vars, \A t \in Attempt : Told(t),
           NEW s \in Attempt, NEW label, label # "idle",
           label = "committing" => Connected(s),
           Goto(s, label) \/ UNCHANGED pc, UNCHANGED <<op, reply, lookup, landed>>
    PROVE  \A t \in Attempt : Told(t)'
<1> SUFFICES ASSUME NEW t \in Attempt PROVE Told(t)'
  BY Zenon
<1>1. pc'[t] = pc[t] \/ (t = s /\ pc'[t] = label)
  BY Zenon DEF Discipline, TypeOK, TxTypeOK, Goto
<1> QED
  BY <1>1, ToldKept, ZenonT(30)

\* An answer given before COMMIT is sent is true, and so stays every other one.
LEMMA ToldAnswer ==
    ASSUME Discipline, [Next]_vars, \A t \in Attempt : Told(t),
           NEW s \in Attempt, NEW tag, NEW by, Return(s, tag, by), pc[s] # "idle",
           pc[s] # "done",
           tag # "committed", tag \in Refused => pc[s] # "committing",
           tag = "already" => /\ by \in landed
                              /\ op[by].key = op[s].key
                              /\ op[by].rows = op[s].rows
    PROVE  \A t \in Attempt : Told(t)'
<1>1. UNCHANGED <<pc, op, lookup, landed>> /\ reply' = [reply EXCEPT ![s] = [tag |-> tag, by |-> by]]
  BY ZenonT(30) DEF Return, tableVars
<1>2. ASSUME NEW t \in Attempt, t # s PROVE Told(t)'
  BY <1>1, <1>2, ToldKept, ZenonT(30) DEF Discipline, TypeOK, TxTypeOK
<1>3. reply'[s].tag = tag /\ reply'[s].by = by
  BY <1>1, Zenon DEF Discipline, TypeOK, TxTypeOK
<1>4. s \notin landed
  BY ZenonT(30) DEF Discipline, BarrierDiscipline
<1>5. KeyHolder(op[s].key)' = KeyHolder(op[s].key)
  BY <1>1, Zenon DEF KeyHolder
<1>6. Told(s)'
  BY <1>1, <1>3, <1>4, <1>5 DEF Told
<1> QED
  BY <1>2, <1>6, Zenon

\* A replay is answered with the commit that did the same work.
LEMMA ToldReplay ==
    ASSUME Discipline, [Next]_vars, OutcomeInv, NEW s \in Attempt,
           pc[s] \in {"reconcile", "conflict"}, ReturnReconciled(s, op[s].key)
    PROVE  \A t \in Attempt : Told(t)'
<1>1. CASE Return(s, "collision", Nobody)
  BY <1>1, ToldAnswer, ZenonT(30) DEF OutcomeInv
<1>2. ASSUME NEW t \in KeyHolder(op[s].key), Return(s, "already", t)
      PROVE  \A u \in Attempt : Told(u)'
  <2>1. t \in landed /\ t \in Attempt /\ op[t].key = op[s].key
    BY <1>2, Zenon DEF KeyHolder, Discipline, TypeOK, TableTypeOK
  <2>2. op[t].rows = op[s].rows
    BY <2>1, KeyNamesWork, Zenon DEF OutcomeInv, Discipline
  <2> QED
    BY <1>2, <2>1, <2>2, ToldAnswer, Zenon DEF OutcomeInv
<1> QED
  BY <1>1, <1>2, Zenon DEF ReturnReconciled

\* Every step keeps every outcome true.
LEMMA OutcomesKept ==
    ASSUME Discipline, OutcomeInv, [Next]_vars
    PROVE  \A t \in Attempt : Told(t)'
<1>a. \A t \in Attempt : Told(t)
  BY Zenon DEF OutcomeInv
<1> DEFINE Mute == UNCHANGED <<op, reply, lookup, landed>>
<1>b. ASSUME NEW s \in Attempt, NEW label, Goto(s, label), Mute, label # "idle",
             label = "committing" => Connected(s)
      PROVE  \A t \in Attempt : Told(t)'
  BY <1>a, <1>b, ToldMute, Zenon
<1>c. ASSUME UNCHANGED pc, Mute PROVE \A t \in Attempt : Told(t)'
  BY <1>a, <1>c, ToldKept, Zenon
<1>d. ASSUME NEW s \in Attempt, NEW tag, Return(s, tag, Nobody),
             pc[s] \notin {"idle", "done"}, tag \notin {"committed", "already"},
             tag \in Refused => pc[s] # "committing"
      PROVE  \A t \in Attempt : Told(t)'
  BY <1>a, <1>d, ToldAnswer, Zenon
<1>1. ASSUME NEW s \in Attempt, NEW o \in Plans, Begin(s, o)
      PROVE  \A t \in Attempt : Told(t)'
  <2>1. /\ pc[s] = "idle" /\ op' = [op EXCEPT ![s] = o] /\ pc' = [pc EXCEPT ![s] = "begin"]
        /\ UNCHANGED <<reply, lookup, landed>>
    BY <1>1, Zenon DEF Begin, Goto, tableVars
  <2> SUFFICES ASSUME NEW t \in Attempt PROVE Told(t)'
    BY Zenon
  <2>2. (t # s => op'[t] = op[t] /\ pc'[t] = pc[t]) /\ pc'[s] = "begin"
    BY <2>1, Zenon DEF Discipline, TypeOK, TxTypeOK
  <2> QED
    BY <1>a, <2>1, <2>2, ToldKept, Zenon
<1>2. ASSUME NEW s \in Attempt, ShareBarrier(s) PROVE \A t \in Attempt : Told(t)'
  <2>1. Mute /\ (Goto(s, "reconcile") \/ Goto(s, "alloc"))
    BY <1>2, ZenonT(30) DEF ShareBarrier, tableVars
  <2> QED
    BY <2>1, <1>b, Zenon
<1>3. ASSUME NEW s \in Attempt, ReconcileFirst(s) PROVE \A t \in Attempt : Told(t)'
  <2>1. pc[s] = "reconcile" /\ (ReturnReconciled(s, op[s].key) \/ (Goto(s, "fence") /\ Mute))
    BY <1>3, Zenon DEF ReconcileFirst, tableVars
  <2> QED
    BY <2>1, <1>b, ToldReplay, Zenon
<1>4. ASSUME NEW s \in Attempt, Fence(s) PROVE \A t \in Attempt : Told(t)'
  <2>1. pc[s] = "fence" /\ (Return(s, "leaselost", Nobody) \/ (Goto(s, "alloc") /\ Mute))
    BY <1>4, Zenon DEF Fence, tableVars
  <2> QED
    BY <2>1, <1>b, <1>d, Zenon
<1>5. ASSUME NEW s \in Attempt, AllocateId(s) PROVE \A t \in Attempt : Told(t)'
  <2>1. Mute /\ Goto(s, "insert")
    BY <1>5, Zenon DEF AllocateId
  <2> QED
    BY <2>1, <1>b, Zenon
<1>6. ASSUME NEW s \in Attempt, InsertCommit(s) PROVE \A t \in Attempt : Told(t)'
  <2>1. Mute /\ (Goto(s, "conflict") \/ Goto(s, "apply"))
    BY <1>6, ZenonT(30) DEF InsertCommit, tableVars
  <2> QED
    BY <2>1, <1>b, Zenon
<1>7. ASSUME NEW s \in Attempt, AnswerConflict(s) PROVE \A t \in Attempt : Told(t)'
  BY <1>7, ToldReplay, Zenon DEF AnswerConflict
<1>8. ASSUME NEW s \in Attempt, NEW p \in Attempt, TombstonePart(s, p)
      PROVE  \A t \in Attempt : Told(t)'
  <2>1. pc[s] = "apply" /\ (Return(s, "conflict", Nobody) \/ (UNCHANGED pc /\ Mute))
    BY <1>8, Zenon DEF TombstonePart, tableVars
  <2> QED
    BY <2>1, <1>c, <1>d, Zenon
<1>9. ASSUME NEW s \in Attempt, InsertParts(s) PROVE \A t \in Attempt : Told(t)'
  <2>1. Mute /\ Goto(s, "offsets")
    BY <1>9, Zenon DEF InsertParts, tableVars
  <2> QED
    BY <2>1, <1>b, Zenon
<1>10. ASSUME NEW s \in Attempt, NEW l \in Lane, MoveOffset(s, l)
       PROVE  \A t \in Attempt : Told(t)'
  <2>1. pc[s] = "offsets" /\ (Return(s, "race", Nobody) \/ (UNCHANGED pc /\ Mute))
    BY <1>10, Zenon DEF MoveOffset, tableVars
  <2> QED
    BY <2>1, <1>c, <1>d, Zenon
<1>11. ASSUME NEW s \in Attempt, SendCommit(s) PROVE \A t \in Attempt : Told(t)'
  <2>1. Mute /\ Goto(s, "committing") /\ Connected(s)
    BY <1>11, Zenon DEF SendCommit, tableVars
  <2> QED
    BY <2>1, <1>b, Zenon
<1>12. ASSUME NEW s \in Attempt, CommitDurable(s) \/ CommitLost(s)
       PROVE  \A t \in Attempt : Told(t)'
  <2>1. /\ pc[s] = "committing" /\ Goto(s, "done") /\ UNCHANGED <<op, lookup>>
        /\ landed' = landed \/ (CommitDurable(s) /\ landed' = landed \cup {s})
        /\ \/ ~Connected(s) /\ UNCHANGED reply
           \/ Connected(s) /\ \E x : reply' = [reply EXCEPT ![s] = x]
    BY <1>12, Zenon DEF CommitDurable, CommitLost, EndTx, tableVars
  <2>2. (\A t \in Attempt \ {s} : pc'[t] = pc[t] /\ reply'[t] = reply[t]) /\ pc'[s] = "done"
    BY <2>1, Zenon DEF Goto, Discipline, TypeOK, TxTypeOK
  <2>3. ASSUME NEW t \in Attempt, t # s PROVE Told(t)'
    BY <1>a, <2>1, <2>2, <2>3, ToldKept, ZenonT(30)
  <2>4. CASE ~Connected(s) /\ UNCHANGED reply
    BY <1>a, <2>1, <2>2, <2>3, <2>4, ToldKept, ZenonT(30)
  <2>5. CASE Connected(s) /\ ~(UNCHANGED reply)
    <3>1. \/ CommitDurable(s) /\ reply'[s].tag = "committed"
          \/ reply'[s].tag = Unanswered(s)
          \/ CommitLost(s) /\ reply'[s].tag = "error"
      BY <1>12, <2>5, SMTT(30) DEF CommitDurable, CommitLost, Discipline, TypeOK, TxTypeOK
    <3>2. s \notin landed
      BY <2>1, Zenon DEF Discipline, BarrierDiscipline
    <3>3. CommitDurable(s) => s \in landed'
      BY ZenonT(30) DEF CommitDurable
    <3>4. CommitLost(s) => s \notin landed'
      BY <3>2, Zenon DEF CommitLost, tableVars
    <3>5. KeyHolder(op[s].key) # {} => KeyHolder(op[s].key)' # {}
      BY <2>1, LandedStays, Zenon DEF KeyHolder
    <3>6. lookup'[s] = "committed" => KeyHolder(op[s].key)' # {}
      BY <1>a, <2>1, <3>5, Zenon DEF Told
    <3> QED
      BY <2>2, <2>3, <3>1, <3>3, <3>4, <3>6, Zenon DEF Told, Unanswered, Refused
  <2> QED
    BY <2>1, <2>4, <2>5, <2>3, <2>2, <1>a, ToldKept, ZenonT(30)
<1>13. ASSUME NEW s \in Attempt, LoseConnection(s) PROVE \A t \in Attempt : Told(t)'
  <2>1. pc[s] = "committing" /\ Return(s, Unanswered(s), Nobody)
    BY <1>13, Zenon DEF LoseConnection
  <2>2. Unanswered(s) \in {"unidentified", "ambiguous"}
    BY Zenon DEF Unanswered
  <2> QED
    BY <2>1, <2>2, <1>d, Zenon DEF Refused
<1>14. ASSUME NEW s \in Attempt, Fail(s) PROVE \A t \in Attempt : Told(t)'
  <2>1. pc[s] \notin {"idle", "done", "committing"} /\ Return(s, "error", Nobody)
    BY <1>14, Zenon DEF Fail, Sharing
  <2> QED
    BY <2>1, <1>d, Zenon
<1>15. ASSUME NEW s \in Attempt, Rollback(s) PROVE \A t \in Attempt : Told(t)'
  <2>1. Mute /\ Goto(s, "done")
    BY <1>15, Zenon DEF Rollback, EndTx, tableVars
  <2> QED
    BY <2>1, <1>b, Zenon
<1>16. ASSUME NEW s \in Attempt, LookupOperation(s) PROVE \A t \in Attempt : Told(t)'
  <2>1. /\ reply[s].tag = "ambiguous" /\ UNCHANGED <<pc, op, reply, landed>>
        /\ \E x : lookup' = [lookup EXCEPT ![s] = x]
    BY <1>16, ZenonT(30) DEF LookupOperation, tableVars
  <2>2. ASSUME NEW t \in Attempt, t # s PROVE Told(t)'
    BY <1>a, <2>1, <2>2, ToldKept, Zenon DEF Discipline, TypeOK, TxTypeOK
  <2>3. lookup'[s] = "committed" => KeyHolder(op[s].key) # {}
    BY <1>16, Zenon DEF LookupOperation, Discipline, TypeOK, TxTypeOK
  <2>4. KeyHolder(op[s].key)' = KeyHolder(op[s].key)
    BY <2>1, Zenon DEF KeyHolder
  <2>5. Told(s)'
    BY <1>a, <2>1, <2>3, <2>4, ZenonT(30) DEF Told
  <2> QED
    BY <2>2, <2>5, Zenon
<1>17. ASSUME NEW r \in Reader, ReaderStep(r) \/ Abandon(r)
       PROVE  \A t \in Attempt : Told(t)'
  <2>1. UNCHANGED pc /\ Mute
    BY <1>17, Zenon DEF ReaderStep, Abandon, StartRegistration, Poll, TakeBarrier, ReadHead,
       RegisterCursor, ReadPage, Handle, Advance, txVars, tableVars
  <2> QED
    BY <2>1, <1>c, Zenon
<1>18. CASE UNCHANGED vars
  BY <1>18, <1>c, Zenon DEF vars, txVars, tableVars
<1> QED
  BY <1>1, <1>2, <1>3, <1>4, <1>5, <1>6, <1>7, <1>8, <1>9, <1>10, <1>11, <1>12, <1>13,
     <1>14, <1>15, <1>16, <1>17, <1>18, Zenon DEF Next, Statement, Ending

\* The plans and the outcomes together are inductive.
LEMMA OutcomeKept ==
    ASSUME Discipline, OutcomeInv, [Next]_vars
    PROVE  OutcomeInv'
<1>1. ASSUME NEW s \in Attempt PROVE Planned(op[s])'
  <2>1. ASSUME NEW o, Planned(o), op'[s] = o PROVE Planned(op[s])'
    <3>1. Planned(o)'
      BY <2>1, PlanStays, Zenon
    <3> QED
      BY <2>1, <3>1, Zenon DEF Planned
  <2>2. op'[s] = op[s] \/ \E o \in Plans : op'[s] = o
    BY OpIdSteps, Zenon DEF AllocateId, Begin, Discipline, TypeOK, TxTypeOK
  <2> QED
    BY <2>1, <2>2, PlansPlanned, Zenon DEF OutcomeInv
<1> QED
  BY <1>1, OutcomesKept, Zenon DEF OutcomeInv

-----------------------------------------------------------------------------
\* What a COMMIT that lands does to the tables, and what its locks had kept true.
LEMMA Landing ==
    ASSUME Discipline, NEW s \in Attempt, CommitDurable(s)
    PROVE  /\ s \notin landed /\ landed' = landed \cup {s} /\ UNCHANGED <<op, id>>
           /\ op[s].old \subseteq Live
           /\ deleted' = [p \in Attempt |-> IF p \in op[s].old THEN s ELSE deleted[p]]
           /\ op[s].key # NoKey => \A t \in landed : op[t].key # op[s].key
           /\ next' = [l \in Lane |-> IF op[s].offs[l] = NoRange
                                      THEN next[l] ELSE op[s].offs[l].last + 1]
           /\ \A l \in Lane : op[s].offs[l] # NoRange => next[l] <= op[s].offs[l].first
           /\ \A r \in Reader : head[r] < id[s]
<1> USE DEF Discipline
<1>1. pc[s] = "committing" /\ op' = op /\ id' = id /\ landed' = landed \cup {s}
  BY Zenon DEF CommitDurable
<1>2. s \notin landed
  BY <1>1, Zenon DEF BarrierDiscipline
<1>3. locked[s] = op[s].old /\ op[s].old \subseteq Live
  BY <1>1, Zenon DEF LockDiscipline, RowLocks
<1>4. deleted' = [p \in Attempt |-> IF p \in op[s].old THEN s ELSE deleted[p]]
  BY <1>3, Zenon DEF CommitDurable
<1>5. op[s].key # NoKey => \A t \in landed : op[t].key # op[s].key
  BY <1>1, ZenonT(30) DEF LockDiscipline, KeyLocks, KeyHolder, Inserted
<1>6. next' = [l \in Lane |->
                 IF op[s].offs[l] = NoRange THEN next[l] ELSE op[s].offs[l].last + 1]
  BY <1>1, ZenonT(30) DEF CommitDurable, LockDiscipline, LaneLocks
<1>7. \A l \in Lane : op[s].offs[l] # NoRange => next[l] <= op[s].offs[l].first
  BY <1>1, Zenon DEF LockDiscipline, LaneLocks
<1>8. \A r \in Reader : head[r] < id[s]
  BY <1>1, Zenon DEF BarrierDiscipline, Numbered, Inserted
<1> QED
  BY <1>1, <1>2, <1>3, <1>4, <1>5, <1>6, <1>7, <1>8, ZenonT(30)

\* Any other step leaves the tables as they are.
LEMMA NotLanding ==
    ASSUME Discipline, [Next]_vars, ~(\E s \in Attempt : CommitDurable(s))
    PROVE  /\ UNCHANGED <<landed, deleted, next>>
           /\ \A s \in landed : s \in Attempt /\ op'[s] = op[s] /\ id'[s] = id[s]
  BY DurableKept, LandedStays, Zenon

\* The ranges a plan covers are not inverted.
LEMMA RangesForward ==
    ASSUME NEW o, Planned(o), NEW l \in Lane, o.offs[l] # NoRange
    PROVE  /\ o.offs[l].first <= o.offs[l].last
           /\ o.offs[l].first \in Nat /\ o.offs[l].last \in Nat
<1>1. PICK a \in Adds : o = AddOp(a)
  <2>1. ASSUME NEW ps, NEW rs,
               o = CompactionOp(ps, rs) \/ o = DeleteKeyOp(ps, rs) \/ o = DropOp(ps)
        PROVE  FALSE
    BY <2>1, CompactionFields, DeleteKeyFields, DropFields DEF NoOffsets
  <2> QED
    BY <2>1, Zenon DEF Planned
<1>2. o.offs[l] = AddRange[a][l]
  BY <1>1, AddFields, Zenon
<1> QED
  BY <1>2, IntentAssumption, Zenon DEF Range

\* One landed commit per key; lanes advance past what was published, once.
LEMMA ExactlyOnceKept ==
    ASSUME Discipline, OutcomeInv, ExactlyOnce, [Next]_vars
    PROVE  ExactlyOnce'
<1>1. ASSUME ~(\E s \in Attempt : CommitDurable(s)) PROVE ExactlyOnce'
  BY <1>1, NotLanding DEF ExactlyOnce
<1>2. ASSUME NEW u \in Attempt, CommitDurable(u) PROVE ExactlyOnce'
  <2>1. /\ u \notin landed /\ landed' = landed \cup {u} /\ op' = op
        /\ op[u].key # NoKey => \A t \in landed : op[t].key # op[u].key
        /\ next' = [l \in Lane |-> IF op[u].offs[l] = NoRange
                                   THEN next[l] ELSE op[u].offs[l].last + 1]
        /\ \A l \in Lane : op[u].offs[l] # NoRange => next[l] <= op[u].offs[l].first
    BY <1>2, Landing, Zenon
  <2>2. \A s, t \in landed' : op'[s].key # NoKey /\ op'[s].key = op'[t].key => s = t
    BY <2>1, ZenonT(30) DEF ExactlyOnce
  <2>3. ASSUME NEW l \in Lane
        PROVE  LET flushes == {s \in landed' : op'[s].offs[l] # NoRange}
               IN  /\ \A s \in flushes : op'[s].offs[l].last < next'[l]
                   /\ next'[l] = 0 \/ \E s \in flushes : next'[l] = op'[s].offs[l].last + 1
                   /\ \A s, t \in flushes : s # t => ~Overlap(op'[s].offs[l], op'[t].offs[l])
    <3> DEFINE F == {s \in landed : op[s].offs[l] # NoRange}
               G == {s \in landed' : op'[s].offs[l] # NoRange}
    <3>1. /\ \A s \in F : op[s].offs[l].last < next[l]
          /\ next[l] = 0 \/ \E s \in F : next[l] = op[s].offs[l].last + 1
          /\ \A s, t \in F : s # t => ~Overlap(op[s].offs[l], op[t].offs[l])
      BY Zenon DEF ExactlyOnce
    <3>2. \A s \in F \cup G : /\ op[s].offs[l].first <= op[s].offs[l].last
                              /\ op[s].offs[l].first \in Nat /\ op[s].offs[l].last \in Nat
      BY <2>1, RangesForward, ZenonT(30) DEF OutcomeInv, Discipline, TypeOK, TableTypeOK
    <3>3. next[l] \in Nat
      BY Zenon DEF Discipline, TypeOK, TableTypeOK
    <3>4. CASE op[u].offs[l] = NoRange
      <4>1. G = F /\ next'[l] = next[l]
        BY <2>1, <3>4, Zenon
      <4> QED
        BY <2>1, <3>1, <4>1, ZenonT(30)
    <3>5. CASE op[u].offs[l] # NoRange
      <4>1. G = F \cup {u} /\ next'[l] = op[u].offs[l].last + 1
        BY <2>1, <3>5, Zenon
      <4>2. next[l] <= op[u].offs[l].first
        BY <2>1, <3>5, Zenon
      <4> HIDE DEF F, G
      <4>3. \A s \in F : /\ op[s].offs[l].last < op[u].offs[l].first
                         /\ op[s].offs[l].last < next'[l]
        BY <3>1, <3>2, <3>3, <4>1, <4>2, SMTT(60)
      <4>4. \A s \in F : /\ ~Overlap(op[s].offs[l], op[u].offs[l])
                         /\ ~Overlap(op[u].offs[l], op[s].offs[l])
        BY <3>2, <4>1, <4>3, SMTT(60) DEF Overlap
      <4>5. \A s \in G : op[s].offs[l].last < next'[l]
        BY <3>2, <4>1, <4>3, SMTT(30)
      <4>6. \A s, t \in G : s # t => ~Overlap(op[s].offs[l], op[t].offs[l])
        BY <3>1, <4>1, <4>4, Zenon
      <4>7. \E s \in G : next'[l] = op[s].offs[l].last + 1
        BY <4>1, Zenon
      <4> QED
        BY <2>1, <4>5, <4>6, <4>7, ZenonT(30) DEF G
    <3> QED
      BY <3>4, <3>5, Zenon
  <2> QED
    BY <2>2, <2>3, ZenonT(30) DEF ExactlyOnce, Overlap
<1> QED
  BY <1>1, <1>2, Zenon

\* What a landing operation brings: a rewrite keeps rows of the parts it
\* replaces, and a flush brings rows no landed flush has brought.
LEMMA RowsFresh ==
    ASSUME Discipline, OutcomeInv, ExactlyOnce, NEW s \in Attempt, CommitDurable(s)
    PROVE  \/ op[s].kind # "add" /\ op[s].rows \subseteq RowsOf(op[s].old)
           \/ op[s].kind = "add" /\ op[s].old = {} /\ op[s].rows \cap Added = {}
<1>1. ASSUME NEW ps \in SUBSET landed, NEW rs, rs = RowsOf(ps),
             op[s] = CompactionOp(ps, rs) \/ op[s] = DeleteKeyOp(ps, rs) \/ op[s] = DropOp(ps)
      PROVE  op[s].kind # "add" /\ op[s].rows \subseteq RowsOf(op[s].old)
  <2>1. op[s].kind # "add" /\ op[s].old = ps /\ op[s].rows \subseteq rs
    BY <1>1, ReplaceFields, Zenon
  <2> QED
    BY <1>1, <2>1, Zenon
<1>2. ASSUME NEW a \in Adds, op[s] = AddOp(a)
      PROVE  op[s].kind = "add" /\ op[s].old = {} /\ op[s].rows \cap Added = {}
  <2>1. /\ op[s].kind = "add" /\ op[s].old = {}
        /\ op[s].rows = AddRows[a] /\ op[s].offs = AddRange[a]
        /\ op[s].key = [domain |-> "ingest", parts |-> {}, add |-> a]
    BY <1>2, AddFields, Zenon
  <2>2. op[s].key # NoKey
    BY <2>1, SentinelAssumption, SMTT(30) DEF Identity
  <2>3. ASSUME NEW t \in landed, op[t].kind = "add" PROVE op[s].rows \cap op[t].rows = {}
    <3>1. t \in Attempt /\ Planned(op[t])
      BY Zenon DEF OutcomeInv, Discipline, TypeOK, TableTypeOK
    <3>2. PICK b \in Adds : op[t] = AddOp(b)
      <4>1. ASSUME NEW ps, NEW rs,
                   op[t] = CompactionOp(ps, rs) \/ op[t] = DeleteKeyOp(ps, rs) \/ op[t] = DropOp(ps)
            PROVE  op[t].kind # "add"
        BY <4>1, ReplaceFields, Zenon
      <4> QED
        BY <2>3, <3>1, <4>1, Zenon DEF Planned
    <3>3. /\ op[t].rows = AddRows[b] /\ op[t].offs = AddRange[b]
          /\ op[t].key = [domain |-> "ingest", parts |-> {}, add |-> b]
      BY <3>2, AddFields, Zenon
    <3>4. a # b
      <4>1. op[t].key # op[s].key
        BY <2>2, Landing, ZenonT(30)
      <4> QED
        BY <2>1, <3>3, <4>1, Zenon
    <3>5. SUFFICES ASSUME AddRows[a] \cap AddRows[b] # {} PROVE FALSE
      BY <2>1, <3>3, Zenon
    <3>6. PICK l \in Lane : /\ AddRange[a][l] # NoRange
                            /\ AddRange[b][l] # NoRange
                            /\ Overlap(AddRange[a][l], AddRange[b][l])
      BY <3>4, <3>5, IntentAssumption, Zenon
    <3>7. next[l] <= op[s].offs[l].first
      BY <2>1, <3>6, Landing, ZenonT(30)
    <3>8. op[t].offs[l].last < next[l]
      BY <3>3, <3>6, ZenonT(30) DEF ExactlyOnce
    <3>9. /\ op[t].offs[l].last \in Nat /\ op[s].offs[l].first \in Nat /\ next[l] \in Nat
      BY <2>1, <3>1, <3>3, <3>6, RangesForward, ZenonT(30)
         DEF OutcomeInv, Discipline, TypeOK, TableTypeOK
    <3> QED
      BY <2>1, <3>3, <3>6, <3>7, <3>8, <3>9, SMTT(60) DEF Overlap
  <2> QED
    BY <2>1, <2>3 DEF Added
<1> QED
  BY <1>1, <1>2, ZenonT(30) DEF OutcomeInv, Planned

\* A plan replaces parts that have landed.
LEMMA PlanOverLanded == ASSUME NEW o, Planned(o) PROVE o.old \subseteq landed
<1>1. ASSUME NEW ps \in SUBSET landed, NEW rs,
             o = CompactionOp(ps, rs) \/ o = DeleteKeyOp(ps, rs) \/ o = DropOp(ps)
      PROVE  o.old \subseteq landed
  BY <1>1, ReplaceFields
<1>2. ASSUME NEW a, o = AddOp(a) PROVE o.old \subseteq landed
  BY <1>2, AddFields, ZenonT(30)
<1> QED
  BY <1>1, <1>2, Zenon DEF Planned

\* No step duplicates, loses or resurrects a row.
LEMMA RowsKept ==
    ASSUME Discipline, OutcomeInv, ExactlyOnce, RowsInv, [Next]_vars
    PROVE  RowsInv'
<1>a. \A s \in landed : s \in Attempt /\ op[s].old \subseteq landed
  BY PlanOverLanded, Zenon DEF OutcomeInv, Discipline, TypeOK, TableTypeOK
<1>b. Live \subseteq landed
  BY Zenon DEF Live
<1>1. ASSUME ~(\E s \in Attempt : CommitDurable(s)) PROVE RowsInv'
  <2>1. /\ UNCHANGED <<landed, deleted>>
        /\ \A s \in landed : op'[s] = op[s]
    BY <1>1, NotLanding, Zenon
  <2>2. Live' = Live
    BY <2>1, Zenon DEF Live
  <2>3. RowsOf(landed)' = RowsOf(landed) /\ RowsOf(Live)' = RowsOf(Live)
    BY <1>b, <2>1, <2>2, Zenon DEF RowsOf
  <2>4. Added' = Added
    BY <2>1 DEF Added
  <2>5. Erased' = Erased
    <3>1. \A s \in landed : RowsOf(op[s].old)' = RowsOf(op[s].old)
      BY <1>a, <2>1, Zenon DEF RowsOf
    <3> QED
      BY <2>1, <3>1, ZenonT(30) DEF Erased
  <2> QED
    BY <1>b, <2>1, <2>2, <2>3, <2>4, <2>5, ZenonT(30) DEF RowsInv, RowAccounting
<1>2. ASSUME NEW s \in Attempt, CommitDurable(s) PROVE RowsInv'
  <2> DEFINE old == op[s].old  rows == op[s].rows
             new == IF rows = {} THEN {} ELSE {s}
  <2>1. /\ s \notin landed /\ landed' = landed \cup {s} /\ op' = op
        /\ old \subseteq Live
        /\ deleted' = [p \in Attempt |-> IF p \in old THEN s ELSE deleted[p]]
    BY <1>2, Landing, ZenonT(30)
  <2>2. \/ op[s].kind # "add" /\ rows \subseteq RowsOf(old)
        \/ op[s].kind = "add" /\ old = {} /\ rows \cap Added = {}
    BY <1>2, RowsFresh, Zenon
  <2>3. \A p \in Attempt : deleted'[p] # Nobody => p \in landed'
    BY <1>b, <2>1, Zenon DEF RowsInv
  <2>4. deleted[s] = Nobody /\ s # Nobody
    BY <2>1, SentinelAssumption, Zenon DEF RowsInv
  <2>5. Live' = (Live \ old) \cup new
    <3>1. deleted'[s] = Nobody /\ \A p \in landed : deleted'[p] = IF p \in old THEN s ELSE deleted[p]
      BY <1>a, <1>b, <2>1, <2>4, Zenon
    <3> QED
      BY <2>1, <2>4, <3>1, ZenonT(30) DEF Live
  <2>6. /\ RowsOf(Live)' = RowsOf(Live \ old) \cup rows
        /\ RowsOf(landed)' = RowsOf(landed) \cup rows
    <3>1. RowsOf(Live)' = UNION {op[p].rows : p \in Live'}
      BY <2>1, Zenon DEF RowsOf
    <3>2. RowsOf(landed)' = UNION {op[p].rows : p \in landed \cup {s}}
      BY <2>1, Zenon DEF RowsOf
    <3>3. RowsOf((Live \ old) \cup new) = RowsOf(Live \ old) \cup RowsOf(new)
      BY Zenon DEF RowsOf
    <3>4. RowsOf(landed \cup {s}) = RowsOf(landed) \cup RowsOf({s})
      BY Zenon DEF RowsOf
    <3>5. RowsOf({s}) = rows
      BY Zenon DEF RowsOf
    <3>6. RowsOf(new) = rows
      BY <3>5, Zenon DEF RowsOf
    <3>7. RowsOf(Live)' = RowsOf((Live \ old) \cup new) /\ RowsOf(landed)' = RowsOf(landed \cup {s})
      BY <2>5, <3>1, <3>2, ZenonT(30) DEF RowsOf
    <3> QED
      BY <3>3, <3>4, <3>5, <3>6, <3>7, ZenonT(30)
  <2>7. Erased' = Erased \cup (RowsOf(old) \ rows)
    BY <2>1 DEF Erased, RowsOf
  <2>8. Added' = Added \cup (IF op[s].kind = "add" THEN rows ELSE {})
    BY <2>1, Zenon DEF Added
  <2>9. /\ \A p, q \in Live : p # q => op[p].rows \cap op[q].rows = {}
        /\ RowsOf(Live) = Added \ Erased /\ RowsOf(landed) \subseteq Added
    BY Zenon DEF RowsInv, RowAccounting
  <2>10. /\ RowsOf(Live) = RowsOf(Live \ old) \cup RowsOf(old)
         /\ RowsOf(Live \ old) \cap RowsOf(old) = {}
    BY <2>1, <2>9, SMTT(30) DEF RowsOf
  <2>11. Erased \subseteq Added
    BY <1>a, <2>9 DEF Erased, RowsOf
  <2>12. \A p \in Live \ old : op[p].rows \cap rows = {}
    <3>1. \A p \in Live \ old : op[p].rows \subseteq RowsOf(Live \ old)
      BY Zenon DEF RowsOf
    <3> QED
      BY <2>2, <2>9, <2>10, <3>1, ZenonT(30)
  <2>13. \A p, q \in Live' : p # q => op'[p].rows \cap op'[q].rows = {}
    BY <2>1, <2>5, <2>9, <2>12, Zenon
  <2>14. RowsOf(old) = {} \/ op[s].kind # "add"
    BY <2>2, Zenon DEF RowsOf
  <2>15. RowsOf(landed)' \subseteq Added'
    <3>1. RowsOf(old) \subseteq Added
      BY <2>9, <2>10, Zenon
    <3> QED
      BY <2>2, <2>6, <2>8, <2>9, <3>1, Zenon
  <2>16. RowsOf(Live)' = Added' \ Erased'
    <3> HIDE DEF old, rows
    <3> DEFINE L == RowsOf(Live \ old)  O == RowsOf(old)
    <3>1. L \cup O = Added \ Erased /\ L \cap O = {} /\ Erased \subseteq Added
      BY <2>9, <2>10, <2>11, ZenonT(30)
    <3>2. RowsOf(Live)' = L \cup rows /\ Erased' = Erased \cup (O \ rows)
      BY <2>6, <2>7, Zenon
    <3> HIDE DEF L, O
    <3>3. CASE op[s].kind # "add" /\ rows \subseteq O
      BY <2>8, <3>1, <3>2, <3>3, Zenon
    <3>4. CASE op[s].kind = "add" /\ O = {} /\ rows \cap Added = {}
      BY <2>8, <3>1, <3>2, <3>4, Zenon
    <3> QED
      BY <2>2, <2>14, <3>3, <3>4, Zenon DEF L, O
  <2> QED
    BY <2>3, <2>13, <2>15, <2>16, Zenon DEF RowsInv, RowAccounting
<1> QED
  BY <1>1, <1>2, Zenon

-----------------------------------------------------------------------------
\* Ids are numbers.
LEMMA IdsTyped == TypeOK => CommittedIds \subseteq Nat
  BY DEF TypeOK, TxTypeOK, TableTypeOK, CommittedIds

\* A landing commit takes its place above everything shown so far.
LEMMA FeedLanding ==
    ASSUME Discipline, FeedInv, NEW s \in Attempt, CommitDurable(s)
    PROVE  FeedInv'
<1>1. UNCHANGED <<rpc, head, after, event, cursor, settled>> /\ UNCHANGED id
  BY ZenonT(30) DEF CommitDurable, readerVars
<1>2. CommittedIds' = CommittedIds \cup {id[s]}
  BY <1>1, Landing, SMTT(30) DEF CommittedIds
<1>3. /\ \A r \in Reader : head[r] < id[s] /\ head[r] \in Nat
      /\ id[s] \in Nat /\ settled \subseteq Nat /\ cursor \in Nat \cup {NoCursor}
      /\ CommittedIds \subseteq Nat
  BY Landing, IdsTyped, ZenonT(30) DEF Discipline, TypeOK, TxTypeOK, ReaderTypeOK
<1>4. id[s] \notin settled /\ (\A i \in settled : i < id[s]) /\ (cursor # NoCursor => cursor < id[s])
  BY <1>3 DEF FeedInv, Shown
<1>5. Covered'
  BY <1>1, <1>2, <1>3, <1>4 DEF FeedInv, Covered
<1>6. Shown'
  BY <1>1, <1>2, Zenon DEF FeedInv, Shown
<1>7. ASSUME NEW r \in Reader PROVE Polls(r)'
  <2>1. Polls(r) /\ head[r] < id[s] /\ head[r] \in Nat /\ id[s] \in Nat
    BY <1>3, Zenon DEF FeedInv
  <2>2. event[r] <= head[r] => event[r] <= id[s]
    BY <2>1 DEF Discipline, TypeOK, ReaderTypeOK
  <2> QED
    BY <1>1, <1>2, <2>1, <2>2, Zenon DEF Polls
<1> QED
  BY <1>5, <1>6, <1>7, Zenon DEF FeedInv

\* A reader's own step.
LEMMA FeedReader ==
    ASSUME Discipline, FeedInv, NEW r \in Reader, ReaderStep(r) \/ Abandon(r)
    PROVE  FeedInv'
<1> USE DEF Discipline
<1>a. UNCHANGED <<landed, id>>
  BY ZenonT(30) DEF ReaderStep, Abandon, StartRegistration, Poll, TakeBarrier, ReadHead,
       RegisterCursor, ReadPage, Handle, Advance, txVars, tableVars
<1>b. CommittedIds' = CommittedIds
  BY <1>a, Zenon DEF CommittedIds
<1>c. /\ rpc \in [Reader -> Exclusive \cup {"idle", "registering", "polling",
                                            "paging", "handling", "advancing"}]
      /\ head \in [Reader -> Nat] /\ after \in [Reader -> Nat] /\ event \in [Reader -> Nat]
      /\ cursor \in Nat \cup {NoCursor} /\ settled \subseteq Nat
      /\ CommittedIds \subseteq Nat /\ NoCursor \notin Nat
  BY IdsTyped, CatalogAssumption, Zenon DEF TypeOK, ReaderTypeOK
<1>d. Covered /\ Shown /\ \A q \in Reader : Polls(q)
  BY Zenon DEF FeedInv
<1>e. ASSUME UNCHANGED <<head, cursor, settled>> PROVE Covered' /\ Shown'
  BY <1>b, <1>d, <1>e, Zenon DEF Covered, Shown
<1>f. ASSUME NEW q \in Reader, UNCHANGED <<cursor, settled>>, rpc'[q] = rpc[q],
             head'[q] = head[q], after'[q] = after[q], event'[q] = event[q]
      PROVE  Polls(q)'
  BY <1>b, <1>d, <1>f, Zenon DEF Polls
<1>1. CASE StartRegistration(r) \/ TakeBarrier(r) \/ Abandon(r)
  <2>1. /\ UNCHANGED <<head, after, event, cursor, settled>>
        /\ \E x \in {"registering", "registers", "reads", "idle"} :
              /\ rpc' = [rpc EXCEPT ![r] = x]
              /\ x = "reads" => rpc[r] = "polling"
    BY <1>1, Zenon DEF StartRegistration, TakeBarrier, Abandon
  <2>2. ASSUME NEW q \in Reader, q # r PROVE Polls(q)'
    BY <1>c, <1>f, <2>1, <2>2, Zenon
  <2>3. Polls(r)'
    BY <1>c, <1>d, <2>1, Zenon DEF Polls, Polled
  <2> QED
    BY <1>e, <2>1, <2>2, <2>3, Zenon DEF FeedInv
<1>2. CASE Poll(r)
  <2>1. /\ UNCHANGED <<head, event, cursor, settled>> /\ cursor # NoCursor
        /\ rpc' = [rpc EXCEPT ![r] = "polling"] /\ after' = [after EXCEPT ![r] = cursor]
    BY <1>2, Zenon DEF Poll
  <2>2. ASSUME NEW q \in Reader, q # r PROVE Polls(q)'
    BY <1>c, <1>f, <2>1, <2>2, Zenon
  <2>3. Polls(r)'
    BY <1>c, <2>1 DEF Polls
  <2> QED
    BY <1>e, <2>1, <2>2, <2>3, Zenon DEF FeedInv
<1>3. CASE ReadHead(r)
  <2>1. PICK h \in {0} \cup CommittedIds : /\ \A i \in CommittedIds : i <= h
                                           /\ head' = [head EXCEPT ![r] = h]
    BY <1>3, ZenonT(30) DEF ReadHead, IsHead
  <2>2. /\ UNCHANGED <<after, event, cursor, settled>> /\ rpc[r] = "reads"
        /\ rpc' = [rpc EXCEPT ![r] = "paging"]
    BY <1>3, Zenon DEF ReadHead
  <2>3. h \in Nat /\ head[r] \in Nat /\ head[r] <= h
    BY <1>c, <1>d, <2>1 DEF Shown
  <2>4. Covered'
    BY <1>b, <1>d, <2>2, Zenon DEF Covered
  <2>5. \A q \in Reader : head[q] <= head'[q]
    BY <1>c, <2>1, <2>3, SMTT(30)
  <2>6. \A n \in Nat : (\E q \in Reader : n <= head[q]) => \E q \in Reader : n <= head'[q]
    <3> SUFFICES ASSUME NEW n \in Nat, NEW q \in Reader, n <= head[q]
                 PROVE  n <= head'[q]
      BY Zenon
    <3>1. head[q] \in Nat /\ head'[q] \in Nat /\ head[q] <= head'[q]
      BY <1>c, <2>1, <2>3, <2>5, Zenon
    <3> QED
      BY <3>1, SMTT(30)
  <2>7. Shown'
    BY <1>b, <1>c, <1>d, <2>1, <2>2, <2>6, Zenon DEF Shown
  <2>8. ASSUME NEW q \in Reader, q # r PROVE Polls(q)'
    BY <1>c, <1>f, <2>1, <2>2, <2>8, Zenon
  <2>9. Polls(r)'
    BY <1>c, <1>d, <2>2, Zenon DEF Polls, Polled
  <2> QED
    BY <2>4, <2>7, <2>8, <2>9, Zenon DEF FeedInv
<1>4. CASE RegisterCursor(r)
  <2>1. PICK h \in {0} \cup CommittedIds :
           /\ \A i \in CommittedIds : i <= h
           /\ head' = [head EXCEPT ![r] = h]
           /\ IF cursor = NoCursor
              THEN cursor' = h /\ settled' = CommittedIds
              ELSE UNCHANGED <<cursor, settled>>
    BY <1>4, ZenonT(30) DEF RegisterCursor, IsHead
  <2>2. UNCHANGED <<after, event>> /\ rpc' = [rpc EXCEPT ![r] = "idle"] /\ rpc[r] = "registers"
    BY <1>4, Zenon DEF RegisterCursor
  <2>3. h \in Nat /\ head[r] \in Nat /\ head[r] <= h /\ head'[r] = h
    BY <1>c, <1>d, <2>1, SMTT(30) DEF Shown
  <2>4. \A n \in Nat : (\E q \in Reader : n <= head[q]) => \E q \in Reader : n <= head'[q]
    <3> SUFFICES ASSUME NEW n \in Nat, NEW q \in Reader, n <= head[q]
                 PROVE  n <= head'[q]
      BY Zenon
    <3>1. head[q] \in Nat /\ head'[q] \in Nat /\ head[q] <= head'[q]
      BY <1>c, <2>1, <2>3
    <3> QED
      BY <3>1
  <2>5. \A q \in Reader : head'[q] \in {0} \cup CommittedIds
    BY <1>c, <1>d, <2>1, Zenon DEF Shown
  <2>6. CASE cursor = NoCursor
    <3>1. cursor' = h /\ settled' = CommittedIds
      BY <2>1, <2>6, Zenon
    <3>2. Covered'
      BY <1>b, <3>1, Zenon DEF Covered
    <3>3. \A i \in CommittedIds : i <= head'[r]
      BY <2>1, <2>3, Zenon
    <3>4. Shown'
      BY <1>b, <2>3, <2>5, <3>1, <3>3, SMTT(30) DEF Shown
    <3>5. \A q \in Reader : rpc'[q] \notin Polled
      BY <1>c, <1>d, <2>2, <2>6, Zenon DEF Polls, Polled
    <3>6. \A q \in Reader : Polls(q)'
      BY <3>5, ZenonT(30) DEF Polls, Polled
    <3> QED
      BY <3>2, <3>4, <3>6, Zenon DEF FeedInv
  <2>7. CASE cursor # NoCursor
    <3>1. UNCHANGED <<cursor, settled>>
      BY <2>1, <2>7, Zenon
    <3>2. Covered'
      BY <1>b, <1>d, <3>1, Zenon DEF Covered
    <3>3. Shown'
      BY <1>b, <1>c, <1>d, <2>4, <2>5, <3>1, Zenon DEF Shown
    <3>4. ASSUME NEW q \in Reader, q # r PROVE Polls(q)'
      BY <1>c, <1>f, <2>1, <2>2, <3>1, <3>4, Zenon
    <3>5. Polls(r)'
      BY <1>c, <2>2, Zenon DEF Polls, Polled
    <3> QED
      BY <3>2, <3>3, <3>4, <3>5, Zenon DEF FeedInv
  <2> QED
    BY <2>6, <2>7, Zenon
<1>5. CASE ReadPage(r)
  <2>1. rpc[r] = "paging" /\ UNCHANGED <<head, after, cursor, settled>>
    BY <1>5, Zenon DEF ReadPage
  <2>2. \/ rpc' = [rpc EXCEPT ![r] = "idle"] /\ UNCHANGED event
        \/ \E e \in Pending(r) : /\ \A i \in Pending(r) : e <= i
                                 /\ event' = [event EXCEPT ![r] = e]
                                 /\ rpc' = [rpc EXCEPT ![r] = "handling"]
    BY <1>5, ZenonT(30) DEF ReadPage
  <2>3. ASSUME NEW q \in Reader, q # r PROVE Polls(q)'
    BY <1>c, <1>f, <2>1, <2>2, <2>3, Zenon
  <2>4. CASE rpc' = [rpc EXCEPT ![r] = "idle"]
    BY <1>c, <1>e, <2>1, <2>3, <2>4, Zenon DEF Polls, Polled, FeedInv
  <2>5. ASSUME NEW e \in Pending(r), \A i \in Pending(r) : e <= i,
               event' = [event EXCEPT ![r] = e], rpc' = [rpc EXCEPT ![r] = "handling"]
        PROVE  Polls(r)'
    <3>1. e \in CommittedIds /\ after[r] < e /\ e <= head[r] /\ event'[r] = e /\ rpc'[r] = "handling"
      BY <1>c, <2>5, Zenon DEF Pending
    <3>2. after[r] \in Nat /\ head[r] \in Nat /\ e \in Nat
      BY <1>c, <3>1, Zenon
    <3>3. \A i \in CommittedIds : i <= after[r] \/ e <= i
      BY <1>c, <2>5, <3>1, <3>2, SMTT(30) DEF Pending
    <3>4. cursor # NoCursor /\ after[r] <= cursor
      BY <1>d, <2>1, ZenonT(30) DEF Polls, Polled
    <3> QED
      BY <1>b, <2>1, <3>1, <3>3, <3>4, ZenonT(30) DEF Polls
  <2> QED
    BY <1>e, <2>1, <2>2, <2>3, <2>4, <2>5, Zenon DEF FeedInv
<1>6. CASE Handle(r)
  <2>1. /\ rpc[r] = "handling" /\ UNCHANGED <<head, after, event, cursor>>
        /\ settled' = settled \cup {event[r]} /\ rpc' = [rpc EXCEPT ![r] = "advancing"]
    BY <1>6, Zenon DEF Handle
  <2>2. /\ cursor # NoCursor /\ after[r] <= cursor /\ event[r] \in CommittedIds
        /\ event[r] <= head[r] /\ \A i \in CommittedIds : i <= after[r] \/ event[r] <= i
    BY <1>d, <2>1, Zenon DEF Polls, Polled
  <2>3. \A i \in CommittedIds : i < event[r] => i \in settled
    <3> SUFFICES ASSUME NEW i \in CommittedIds, i < event[r] PROVE i \in settled
      BY Zenon
    <3>1. i \in Nat /\ event[r] \in Nat /\ after[r] \in Nat /\ cursor \in Nat
      BY <1>c, <2>2, Zenon
    <3>2. i <= after[r]
      BY <2>2, <3>1, SMTT(30)
    <3>3. i <= cursor
      BY <2>2, <3>1, <3>2
    <3> QED
      BY <1>d, <2>2, <3>3, Zenon DEF Covered
  <2>4. Covered'
    BY <1>b, <1>d, <2>1, <2>3, Zenon DEF Covered
  <2>5. Shown'
    BY <1>b, <1>d, <2>1, <2>2, Zenon DEF Shown
  <2>6. ASSUME NEW q \in Reader PROVE Polls(q)'
    <3>1. Polls(q) /\ (q = r \/ rpc'[q] = rpc[q]) /\ rpc'[r] = "advancing"
      BY <1>c, <1>d, <2>1, Zenon
    <3> QED
      BY <1>b, <2>1, <3>1, <2>2, Zenon DEF Polls
  <2> QED
    BY <2>4, <2>5, <2>6, Zenon DEF FeedInv
<1>7. CASE Advance(r)
  <2>1. /\ rpc[r] = "advancing" /\ UNCHANGED <<head, after, event, settled>>
        /\ cursor' = (IF cursor # NoCursor /\ cursor >= event[r] THEN cursor ELSE event[r])
        /\ rpc' = [rpc EXCEPT ![r] = "idle"]
    BY <1>7, Zenon DEF Advance
  <2>2. /\ cursor # NoCursor /\ event[r] \in CommittedIds /\ event[r] \in settled
        /\ event[r] <= head[r]
    BY <1>d, <2>1, ZenonT(30) DEF Polls, Polled
  <2>3. cursor \in Nat /\ cursor' \in Nat /\ cursor <= cursor' /\ event[r] \in Nat
    BY <1>c, <2>1, <2>2
  <2>4. Covered'
    <3>1. \A i \in CommittedIds : i <= event[r] => i \in settled
      BY <1>c, <1>d, <2>2, <2>3, SMTT(30) DEF Covered
    <3>2. \A i \in CommittedIds : i <= cursor => i \in settled
      BY <1>d, <2>2, Zenon DEF Covered
    <3>3. \A i, j \in CommittedIds : i < j /\ j \in settled => i \in settled
      BY <1>d, Zenon DEF Covered
    <3> QED
      BY <1>b, <2>1, <3>1, <3>2, <3>3, Zenon DEF Covered
  <2>5. Shown'
    BY <1>b, <1>d, <2>1, <2>2, Zenon DEF Shown
  <2>6. ASSUME NEW q \in Reader PROVE Polls(q)'
    <3>1. Polls(q) /\ (q # r => rpc'[q] = rpc[q]) /\ rpc'[r] = "idle"
      BY <1>c, <1>d, <2>1, Zenon
    <3>2. after[q] \in Nat /\ (after[q] <= cursor => after[q] <= cursor')
      BY <1>c, <2>3
    <3>3. cursor' # NoCursor
      BY <1>c, <2>3, Zenon
    <3> QED
      BY <1>b, <2>1, <3>1, <3>2, <3>3, Zenon DEF Polls, Polled
  <2> QED
    BY <2>4, <2>5, <2>6, Zenon DEF FeedInv
<1> QED
  BY <1>1, <1>2, <1>3, <1>4, <1>5, <1>6, <1>7, Zenon DEF ReaderStep

\* The cursor stays behind what was handled.
LEMMA FeedKept ==
    ASSUME Discipline, FeedInv, [Next]_vars
    PROVE  FeedInv'
<1>1. CASE \E s \in Attempt : CommitDurable(s)
  BY <1>1, FeedLanding, Zenon
<1>2. CASE \E r \in Reader : ReaderStep(r) \/ Abandon(r)
  BY <1>2, FeedReader, Zenon
<1>3. CASE /\ ~(\E s \in Attempt : CommitDurable(s))
           /\ ~(\E r \in Reader : ReaderStep(r) \/ Abandon(r))
  <2> DEFINE Quiet == UNCHANGED <<rpc, head, after, event, cursor, settled>>
  <2>1. Quiet
    <3>1. ASSUME NEW s \in Attempt, Statement(s) PROVE Quiet
      BY <3>1, Zenon DEF Statement, ShareBarrier, ReconcileFirst, ReturnReconciled, Return,
         Fence, AllocateId, InsertCommit, AnswerConflict, TombstonePart, InsertParts,
         MoveOffset, SendCommit, readerVars
    <3>2. ASSUME NEW s \in Attempt, Ending(s) \/ LookupOperation(s) PROVE Quiet
      BY <3>2, Zenon DEF Ending, LookupOperation, Return, CommitDurable, CommitLost,
         LoseConnection, Fail, Rollback, readerVars
    <3>3. ASSUME NEW s \in Attempt, NEW o, Begin(s, o) PROVE Quiet
      BY <3>3, Zenon DEF Begin, readerVars
    <3>4. CASE UNCHANGED vars
      BY <3>4, ZenonT(30) DEF vars, readerVars
    <3> QED
      BY <1>3, <3>1, <3>2, <3>3, <3>4, Zenon DEF Next
  <2>2. CommittedIds' = CommittedIds
    BY <1>3, NotLanding, Zenon DEF CommittedIds
  <2>3. Covered' /\ Shown'
    BY <2>1, <2>2, Zenon DEF FeedInv, Covered, Shown
  <2>4. ASSUME NEW r \in Reader PROVE Polls(r)'
    BY <2>1, <2>2, Zenon DEF FeedInv, Polls
  <2> QED
    BY <2>3, <2>4, Zenon DEF FeedInv
<1> QED
  BY <1>1, <1>2, <1>3, Zenon

-----------------------------------------------------------------------------
\* Nothing has been asked, landed or polled at the start.
LEMMA InitCatalog == Init => OutcomeInv /\ ExactlyOnce /\ RowsInv /\ FeedInv
<1> SUFFICES ASSUME Init PROVE OutcomeInv /\ ExactlyOnce /\ RowsInv /\ FeedInv
  BY Zenon
<1>1. OutcomeInv
  <2>1. \A s \in Attempt : op[s] = DropOp({}) /\ reply[s].tag = "none" /\ lookup[s] = "none"
    BY ZenonT(30) DEF Init, NoOp, NoReply
  <2>2. Planned(DropOp({}))
    BY Zenon DEF Planned
  <2> QED
    BY <2>1, <2>2, ZenonT(30) DEF OutcomeInv, Told, Refused
<1>2. ExactlyOnce
  BY Zenon DEF Init, ExactlyOnce
<1>3. RowsInv
  BY Zenon DEF Init, RowsInv, RowAccounting, RowsOf, Live, Added, Erased
<1>4. FeedInv
  BY ZenonT(30) DEF Init, FeedInv, Covered, Shown, Polls, Polled, CommittedIds
<1> QED
  BY <1>1, <1>2, <1>3, <1>4, Zenon

\* The whole inductive invariant of the statement-level catalog.
THEOREM AlwaysCatalog == Spec => [](Discipline /\ CatalogInv)
<1>1. Init => Discipline /\ CatalogInv
  BY InitDiscipline, InitCatalog, Zenon DEF CatalogInv
<1>2. (Discipline /\ CatalogInv) /\ [Next]_vars => (Discipline /\ CatalogInv)'
  <2> SUFFICES ASSUME Discipline, CatalogInv, [Next]_vars PROVE Discipline' /\ CatalogInv'
    BY Zenon
  <2>1. Discipline'
    BY NextTyped, NextBarrier, NextLock, Zenon DEF Discipline
  <2> QED
    BY <2>1, OutcomeKept, ExactlyOnceKept, RowsKept, FeedKept, Zenon DEF CatalogInv
<1> QED
  BY <1>1, <1>2, PTL DEF Spec

\* commit_txn, reconcile and lookup_operation never tell a caller something the
\* durable tables contradict, then or later.
THEOREM OutcomesTrue == Spec => []OutcomeTruthful
<1>1. CatalogInv => OutcomeTruthful
  BY ZenonT(30) DEF CatalogInv, OutcomeInv, Told, OutcomeTruthful, Refused
<1> QED
  BY <1>1, AlwaysCatalog, PTL

\* One commit per operation key, and no offset of a lane published twice,
\* whatever attempts race, repeat or lose their answer.
THEOREM PublishedOnce == Spec => []ExactlyOnce
<1>1. CatalogInv => ExactlyOnce
  BY Zenon DEF CatalogInv
<1> QED
  BY <1>1, AlwaysCatalog, PTL

\* Flushes, merges and deletions together account for every row exactly once.
THEOREM RowsAccounted == Spec => []RowAccounting
<1>1. CatalogInv => RowAccounting
  BY Zenon DEF CatalogInv, RowsInv
<1> QED
  BY <1>1, AlwaysCatalog, PTL

\* What commit_txn owes to all callers: work lands once and its rows are live
\* once.
THEOREM LandedOnce == Spec => []LandsOnce
BY PublishedOnce, RowsAccounted, PTL DEF LandsOnce

\* The shared cursor of any number of racing, crashing replicas never passes a
\* commit none of them has handled.
THEOREM CursorBehind == Spec => []FeedComplete
<1>1. CatalogInv => FeedComplete
  BY ZenonT(30) DEF CatalogInv, FeedInv, Covered, CommittedIds, FeedComplete
<1> QED
  BY <1>1, AlwaysCatalog, PTL
=============================================================================
