------------------------------ MODULE Rewrite -------------------------------
(***************************************************************************)
(* The rewrite engine of a merge: K sorted part streams go through a k-way  *)
(* merge that never re-sorts, and the merged batches through a streaming    *)
(* writer that cuts files by placement and row groups by a row cap.         *)
(*                                                                          *)
(* A row is <<packing key, timestamp, stream, position>>; the sort key is   *)
(* (packing key, timestamp), ascending, nulls first.  How large a file is   *)
(* after a write is the encoder's business, so "the file has reached its    *)
(* target" is chosen freely after every slice.                              *)
(***************************************************************************)
EXTENDS KeyIndex, SequencesExt

CONSTANTS
    Inputs,   \* the tuples of streams considered; a stream is a sequence of <<key, ts>>
    BatchRows,\* MERGE_BATCH_ROWS: rows of an input batch, and of a merged one
    Cap       \* WriteOpts::max_row_group_rows

ASSUME RewriteAssumption == BatchRows \in Nat \ {0} /\ Cap \in Nat \ {0}

VARIABLES
    placement, \* Placement of the hypertable
    streams,   \* the rows of the input parts, in file order
    cur,       \* stream -> its Cursor: batch, next index, rows read, last row
    pc,        \* where the merge is
    picked,    \* (stream, index) pairs of the merged batch being collected
    runs,      \* key runs of the last merged batch still to be written
    open,      \* the output file being written, or None
    lastKey,   \* last_closed_key
    outputs    \* the closed files

mergeVars == <<cur, picked>>
fileVars == <<open, lastKey, outputs>>
vars == <<placement, streams, pc, runs, mergeVars, fileVars>>

Tagged(input) ==
    [s \in DOMAIN input |-> [i \in DOMAIN input[s] |-> <<input[s][i][1], input[s][i][2], s, i>>]]

Init ==
    /\ placement \in {"packed", "separated", "sized"}
    /\ \E input \in Inputs : streams = Tagged(input)
    /\ cur = [s \in DOMAIN streams |-> [batch |-> <<>>, idx |-> 1, read |-> 0, last |-> None]]
    /\ pc = "init" /\ picked = <<>> /\ runs = <<>>
    /\ open = None /\ lastKey = None /\ outputs = <<>>
-----------------------------------------------------------------------------
(* The k-way merge. *)

Rank(t) == IF t = Null THEN MinInt - 1 ELSE t

\* The order of the sort key.
Less(a, b) == a[1] < b[1] \/ (a[1] = b[1] /\ Rank(a[2]) < Rank(b[2]))

\* The next batch of the reader.
NextBatch(s) ==
    LET left == Len(streams[s]) - cur[s].read
    IN  SubSeq(streams[s], cur[s].read + 1, cur[s].read + IF left < BatchRows THEN left ELSE BatchRows)

\* convert_and_guard: in order within the batch and after the previous one.
InOrder(b, last) ==
    /\ \A i \in 2..Len(b) : ~Less(b[i], b[i - 1])
    /\ last = None \/ ~Less(b[1], last)

\* refill: at the end of the stream the cursor keeps its spent batch.
Refilled(s) ==
    LET b == NextBatch(s) IN
    IF b = <<>> THEN [cur[s] EXCEPT !.idx = Len(cur[s].batch) + 1]
    ELSE [batch |-> b, idx |-> 1, read |-> cur[s].read + Len(b), last |-> Last(b)]

RefillInOrder(s) == NextBatch(s) = <<>> \/ InOrder(NextBatch(s), cur[s].last)

\* The heap: one head per cursor that is not spent.
Heads == {s \in DOMAIN streams : cur[s].idx <= Len(cur[s].batch)}
HeadOf(s) == cur[s].batch[cur[s].idx]

\* Faulty variant: the heap compares packing keys only.
WinnerByKey ==
    CHOOSE s \in Heads : \A r \in Heads :
        HeadOf(s)[1] < HeadOf(r)[1] \/ (HeadOf(s)[1] = HeadOf(r)[1] /\ s <= r)

\* The least (row, stream) pair.
Winner ==
    CHOOSE s \in Heads : \A r \in Heads :
        Less(HeadOf(s), HeadOf(r)) \/ (~Less(HeadOf(r), HeadOf(s)) /\ s <= r)

\* build: the picked rows, out of the batches the cursors hold now.
Build(ix) == [i \in DOMAIN ix |-> cur[ix[i][1]].batch[ix[i][2]]]

\* One contiguous slice per key.
SplitByKey(rows) ==
    FoldLeft(LAMBDA acc, r :
                IF acc # <<>> /\ Last(acc).key = r[1]
                THEN [acc EXCEPT ![Len(acc)].rows = Append(@, r)]
                ELSE Append(acc, [key |-> r[1], rows |-> <<r>>]),
             <<>>, rows)

\* A merged batch goes to the writer.
Emit(ix) == runs' = SplitByKey(Build(ix)) /\ picked' = <<>> /\ pc' = "key"

\* MergeState::init fills every cursor, in stream order.
Fill(s) ==
    /\ pc = "init" /\ cur[s].read = 0 /\ Len(cur[s].batch) = 0 /\ cur[s].last = None
    /\ \A r \in 1..(s - 1) : cur[r].read > 0 \/ streams[r] = <<>>
    /\ streams[s] # <<>>
    /\ IF RefillInOrder(s) THEN cur' = [cur EXCEPT ![s] = Refilled(s)] /\ UNCHANGED pc
       ELSE pc' = "disorder" /\ UNCHANGED cur
    /\ UNCHANGED <<placement, streams, picked, runs, fileVars>>

Filled ==
    /\ pc = "init"
    /\ \A s \in DOMAIN streams : cur[s].read > 0 \/ streams[s] = <<>>
    /\ pc' = "pull"
    /\ UNCHANGED <<placement, streams, mergeVars, runs, fileVars>>

\* One turn of next_batch: take the winner; a cursor at the end of its batch
\* is refilled after the batch it completes is built.
Take ==
    LET s == Winner
        ix == Append(picked, <<s, cur[s].idx>>)
        spent == cur[s].idx = Len(cur[s].batch)
    IN
    /\ pc = "pull" /\ Heads # {}
    /\ CASE spent /\ RefillInOrder(s) ->
                Emit(ix) /\ cur' = [cur EXCEPT ![s] = Refilled(s)]
         [] spent /\ ~RefillInOrder(s) ->
                pc' = "disorder" /\ UNCHANGED <<cur, picked, runs>>
         [] ~spent /\ Len(ix) >= BatchRows ->
                Emit(ix) /\ cur' = [cur EXCEPT ![s].idx = @ + 1]
         [] OTHER ->
                cur' = [cur EXCEPT ![s].idx = @ + 1] /\ picked' = ix /\ UNCHANGED <<pc, runs>>
    /\ UNCHANGED <<placement, streams, fileVars>>
-----------------------------------------------------------------------------
(* The streaming writer. *)

\* open_file: a file that goes on with the key of the last one is a whale slice.
NewFile(k) ==
    [groups |-> <<>>, buf |-> <<>>, min |-> k, max |-> k, key |-> k,
     dedicated |-> lastKey = k, full |-> FALSE]

Flushed(f) == IF f.buf = <<>> THEN f ELSE [f EXCEPT !.groups = Append(@, f.buf), !.buf = <<>>]

\* close: the last row group is flushed, then the key index is read.
Closed(f) == Append(outputs, PartMeta(Flushed(f).groups, f.min, f.max))

\* Before a new key the placement may demand a new file.
CutsBefore(f, k) ==
    CASE placement = "packed" -> FALSE
      [] placement = "separated" -> f.key # k
      [] placement = "sized" -> f.key # k /\ (f.full \/ f.dedicated)

NextKey ==
    /\ pc = "key" /\ runs # <<>>
    /\ IF open # None /\ CutsBefore(open, runs[1].key)
       THEN outputs' = Closed(open) /\ lastKey' = open.key /\ open' = None
       ELSE UNCHANGED fileVars
    /\ pc' = "slice"
    /\ UNCHANGED <<placement, streams, mergeVars, runs>>

BatchWritten ==
    /\ pc = "key" /\ runs = <<>>
    /\ pc' = "pull"
    /\ UNCHANGED <<placement, streams, mergeVars, runs, fileVars>>

\* The run would overflow the row group: end the group first.
EndsGroup(f, n) == Len(f.buf) > 0 /\ Len(f.buf) + n > Cap

\* write_slice; the Parquet writer ends a group by itself once it is full.
Written(f, k, slice) ==
    LET g == [f EXCEPT !.buf = @ \o slice, !.key = k, !.max = IF k > @ THEN k ELSE @]
    IN  IF Len(g.buf) = Cap THEN Flushed(g) ELSE g

\* One slice of the run at hand; a SizeTargeted file is cut once it is full.
WriteSlice ==
    LET k == runs[1].key
        left == runs[1].rows
        n == IF Len(left) < Cap THEN Len(left) ELSE Cap
        f0 == IF open = None THEN NewFile(k) ELSE open
        f1 == IF EndsGroup(f0, Len(left)) THEN Flushed(f0) ELSE f0
        f == Written(f1, k, SubSeq(left, 1, n))
    IN
    /\ pc = "slice"
    /\ IF n = Len(left) THEN runs' = Tail(runs) /\ pc' = "key"
       ELSE runs' = [runs EXCEPT ![1].rows = SubSeq(left, n + 1, Len(left))] /\ UNCHANGED pc
    /\ \E full \in IF placement = "sized" THEN BOOLEAN ELSE {FALSE} :
          IF full THEN outputs' = Closed(f) /\ lastKey' = k /\ open' = None
          ELSE open' = [f EXCEPT !.full = full] /\ UNCHANGED <<lastKey, outputs>>
    /\ UNCHANGED <<placement, streams, mergeVars>>

\* Every stream is drained: the last file is closed and the outputs returned.
Finish ==
    /\ pc = "pull" /\ Heads = {}
    /\ IF picked # <<>> THEN Emit(picked) /\ UNCHANGED <<open, outputs>>
       ELSE /\ outputs' = IF open = None THEN outputs ELSE Closed(open)
            /\ open' = None /\ pc' = "done" /\ UNCHANGED <<picked, runs>>
    /\ UNCHANGED <<placement, streams, cur, lastKey>>

\* A read, an upload or the registration of an upload intent fails: so does
\* the merge, and no output is committed.
Fails ==
    /\ pc \in {"init", "pull", "slice"}
    /\ pc' = "failed"
    /\ UNCHANGED <<placement, streams, mergeVars, runs, fileVars>>

-----------------------------------------------------------------------------
(* The rewrite of one packed file by delete_key. *)

\* batch_to_parquet_key_aligned: a group is ended before a key run that would
\* overflow it; a run larger than the cap is split by the Parquet writer.
KeyAligned(rows) ==
    LET add(f, r) == LET g == [f EXCEPT !.buf = Append(@, r)]
                     IN  IF Len(g.buf) = Cap THEN Flushed(g) ELSE g
        run(f, kr) == FoldLeft(add, IF EndsGroup(f, Len(kr.rows)) THEN Flushed(f) ELSE f, kr.rows)
    IN  Flushed(FoldLeft(run, [groups |-> <<>>, buf |-> <<>>], SplitByKey(rows))).groups

\* The file without the key's rows, its range and index rebuilt from what is
\* kept; None when nothing is.
WithoutKey(part, k) ==
    LET kept == SelectSeq(FlattenSeq(part.groups), LAMBDA r : r[1] # k) IN
    IF kept = <<>> THEN None
    ELSE PartMeta(KeyAligned(kept), Least(KeysIn(Rows(kept))), Greatest(KeysIn(Rows(kept))))
-----------------------------------------------------------------------------
Next ==
    \/ \E s \in DOMAIN streams : Fill(s)
    \/ Filled \/ Take \/ NextKey \/ BatchWritten \/ WriteSlice \/ Finish \/ Fails

Spec == Init /\ [][Next]_vars
-----------------------------------------------------------------------------
AllRows == UNION {Rows(streams[s]) : s \in DOMAIN streams}
RowsOf(part) == FlattenSeq(part.groups)

TypeOK ==
    /\ placement \in {"packed", "separated", "sized"}
    /\ pc \in {"init", "pull", "key", "slice", "done", "disorder", "failed"}
    /\ \A s \in DOMAIN streams : /\ cur[s].read \in 0..Len(streams[s])
                                 /\ cur[s].idx \in 1..Len(cur[s].batch) + 1
    /\ Len(picked) < BatchRows
    /\ open # None => /\ Len(open.buf) < Cap
                      /\ \A i \in DOMAIN open.groups : Len(open.groups[i]) \in 1..Cap
    /\ lastKey \in {None} \cup {r[1] : r \in AllRows}

Precedes(a, b) ==
    Less(a, b) \/ (~Less(b, a) /\ (a[3] < b[3] \/ (a[3] = b[3] /\ a[4] < b[4])))

Sorted(rows) == \A i \in 2..Len(rows) : ~Less(rows[i], rows[i - 1])

\* The merge is a sort: read one after the other, the output files hold every
\* input row once, in sort-key order, ties in stream order -- what sorting the
\* concatenated inputs would give -- although only one batch per stream is ever
\* looked at and batches end wherever a cursor runs out (merge_streams,
\* MergeState::next_batch, StreamingChunkWriter::write).  "An input that
\* violates its order is a loud MergeOrderViolation", wherever in the file and
\* its batches the violation lies, and no other is (convert_and_guard).
MergeIsSort ==
    /\ TypeOK
    /\ pc = "done" =>
        /\ \A s \in DOMAIN streams : Sorted(streams[s])
        /\ FlattenSeq([i \in DOMAIN outputs |-> RowsOf(outputs[i])])
             = SetToSortSeq(AllRows, Precedes)
    /\ pc = "disorder" => \E s \in DOMAIN streams : ~Sorted(streams[s])

\* The outputs of one merge are one file chain per key: files come in key
\* order, and a key found in two files fills the later one alone, so that
\* deleting it drops all but the first of its files by metadata.  Packed
\* makes one file and Separated one file per key (consume_key_run).
OneChainPerKey ==
    pc = "done" =>
        /\ \A i, j \in DOMAIN outputs : i < j =>
              \/ outputs[i].max < outputs[j].min
              \/ outputs[i].max = outputs[j].min /\ outputs[j].min = outputs[j].max
        /\ placement = "packed" => Len(outputs) <= 1
        /\ placement = "separated" => Len(outputs) = Cardinality(KeysIn(AllRows))
=============================================================================
