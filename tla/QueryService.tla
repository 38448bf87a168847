---------------------------- MODULE QueryService ----------------------------
(***************************************************************************)
(* The query endpoint: a request is admitted (session, table, file list for *)
(* each scan of the plan, all from the catalog), executed (footers through  *)
(* the process-wide cache, rows from the object store) and formatted, while *)
(* the catalog commits, fails and comes back, other requests share the      *)
(* cache, two timers run and clients hang up.                               *)
(*                                                                          *)
(* A row is a function of the physical columns to integers or Null; an      *)
(* alias is the sum of the columns it refers to.  A plan reads one table,   *)
(* once or twice (a self-join or a union reads it twice).                   *)
(***************************************************************************)
EXTENDS Integers, Sequences, FiniteSets, SequencesExt

CONSTANTS
    Request,     \* the requests
    Asks,        \* what they can ask together: functions from Request to records [namespace,
                 \* table, columns, scans of the table, format (or None), arrow (the client
                 \* accepts it), wants (its readers want page indexes)]
    Histories,   \* sequences of sets of parts: what is live, commit by commit
    PackingKey,  \* the physical column that holds the namespace
    Physical,    \* the physical columns
    Alias,       \* alias column -> the physical columns it adds up
    Capacity,    \* footers the cache holds
    Turns,       \* bound: how often the catalog and the store change their health
    Null, None

VARIABLES
    commits,    \* the live sets to come, the current one first
    tables,     \* <<namespace, name>> of the registered logical tables
    catalog,    \* "up", "down" (transport fails) or "broken" (permanent error)
    storeUp,    \* the object store answers
    turns,      \* changes of either so far
    dead,       \* tombstoned parts
    reaped,     \* parts whose objects are gone
    footers,    \* the cache, least recently used first: [path, index] records
    ask,        \* request -> its query
    call,       \* request -> its record while it runs, then its answer
    lived       \* request -> the live sets there were during its admission (ghost)

worldVars == <<commits, tables, catalog, storeUp, turns, dead, reaped>>
qsVars == <<worldVars, footers, ask, call, lived>>

live == Head(commits)

Idle == [pc |-> "idle"]

\* Every namespace has its table, or one of them is not registered yet.
Names(asked) == {<<asked[r].namespace, asked[r].table>> : r \in Request}

Init ==
    /\ commits \in Histories
    /\ ask \in Asks
    /\ \E t \in Names(ask) : tables \in {Names(ask), Names(ask) \ {t}}
    /\ catalog = "up" /\ storeUp = TRUE /\ turns = 0
    /\ dead = {} /\ reaped = {}
    /\ footers = <<>>
    /\ call = [r \in Request |-> Idle]
    /\ lived = [r \in Request |-> {}]
-----------------------------------------------------------------------------
(* Answers. `met` remembers what the request ran into. *)

Answer(r, status, body, met) ==
    call' = [call EXCEPT ![r] = [pc |-> "answered", status |-> status, body |-> body, met |-> met]]

\* Transport is retryable, a permanent failure ours, the rest the tenant's.
AdmissionError(failure) ==
    CASE failure = "down" -> 503
      [] failure = "broken" -> 500
      [] OTHER -> 400

\* The catalog fails the call, and that is the answer.
CatalogFails(r) == catalog # "up" /\ Answer(r, AdmissionError(catalog), None, catalog)
-----------------------------------------------------------------------------
(* Admission. *)

Arrive(r) ==
    /\ call[r].pc = "idle"
    /\ call' = [call EXCEPT ![r] =
          [pc |-> "session", plans |-> <<>>, left |-> {}, footer |-> None, batches |-> <<>>]]
    /\ lived' = [lived EXCEPT ![r] = {live}]
    /\ UNCHANGED <<worldVars, footers, ask>>

\* session_for_namespace lists the names; they only serve table_exist.
Session(r) ==
    /\ call[r].pc = "session"
    /\ \/ CatalogFails(r)
       \/ catalog = "up" /\ call' = [call EXCEPT ![r].pc = "resolve"]
    /\ UNCHANGED <<worldVars, footers, ask, lived>>

\* The planner asks the schema provider, which asks the catalog again: a table
\* registered after the session was built is found.
Resolve(r) ==
    /\ call[r].pc = "resolve"
    /\ \/ CatalogFails(r)
       \/ /\ catalog = "up"
          /\ IF <<ask[r].namespace, ask[r].table>> \in tables
             THEN call' = [call EXCEPT ![r].pc = "plan"]
             ELSE Answer(r, AdmissionError("unknown"), None, "unknown")
    /\ UNCHANGED <<worldVars, footers, ask, lived>>

Keys(p) == {p.rows[i][PackingKey] : i \in DOMAIN p.rows}

\* The parts whose key range holds the namespace (KeyIndex has the rest).
Listed(parts, ns) == {p \in parts : \E a, b \in Keys(p) : a <= ns /\ ns <= b}

\* Each scan of the plan lists its files in a statement of its own.
Scan(r) ==
    LET c == call[r] IN
    /\ c.pc = "plan"
    /\ \/ CatalogFails(r)
       \/ /\ catalog = "up"
          /\ Len(c.plans) < ask[r].scans
          /\ call' = [call EXCEPT ![r].plans = Append(@, Listed(live, ask[r].namespace))]
    /\ UNCHANGED <<worldVars, footers, ask, lived>>

\* The plan owns its file lists: nothing below reads the catalog.
Admitted(r) ==
    LET c == call[r] IN
    /\ c.pc = "plan" /\ Len(c.plans) = ask[r].scans
    /\ call' = [call EXCEPT ![r].pc = "execute",
                            ![r].left = UNION {{<<i, p>> : p \in c.plans[i]} : i \in 1 .. ask[r].scans}]
    /\ UNCHANGED <<worldVars, footers, ask, lived>>

InAdmission(r) == call[r].pc \in {"session", "resolve", "plan"}
Running(r) == InAdmission(r) \/ call[r].pc \in {"execute", "footer"}

AdmissionTimeout(r) ==
    /\ InAdmission(r)
    /\ Answer(r, 503, None, "slow")
    /\ UNCHANGED <<worldVars, footers, ask, lived>>

\* One timer over admission and execution; formatting is outside.
StatementTimeout(r) ==
    /\ Running(r)
    /\ Answer(r, 408, None, "slow")
    /\ UNCHANGED <<worldVars, footers, ask, lived>>

\* The handler's future is dropped.
HangUp(r) ==
    /\ Running(r)
    /\ call' = [call EXCEPT ![r] = [pc |-> "gone"]]
    /\ UNCHANGED <<worldVars, footers, ask, lived>>
-----------------------------------------------------------------------------
(* The footer cache. *)

Touched(path) == SelectSeq(footers, LAMBDA e : e.path # path) \o SelectSeq(footers, LAMBDA e : e.path = path)

Sufficient(e, wants) == ~wants \/ e.index

\* The cached footer of the file, if it has what the scan wants.
CacheGet(path, wants) ==
    LET held == SelectSeq(footers, LAMBDA e : e.path = path /\ Sufficient(e, wants))
    IN  IF held = <<>> THEN None ELSE Head(held)

\* Replaces the path's entry, or evicts the least recently used one.
CachePut(path, meta) ==
    LET others == SelectSeq(footers, LAMBDA e : e.path # path)
        room == IF Len(others) >= Capacity THEN Tail(others) ELSE others
    IN  Append(room, meta)

Footer(path, index) == [path |-> path, index |-> index]
-----------------------------------------------------------------------------
(* Execution: each file's footer, then its rows. *)

Readable(p) == storeUp /\ p \notin reaped

StoreFails(r, p) ==
    /\ ~Readable(p)
    /\ Answer(r, 400, None, IF p \in reaped THEN "reaped" ELSE "store")

\* Physical columns the scan reads: the packing key for the isolation filter,
\* what was asked for, and what the aliases asked for refer to.
NeededAsked(cols) == UNION {IF c \in Physical THEN {c} ELSE Alias[c] : c \in Range(cols)}
Needed(cols) == {PackingKey} \cup NeededAsked(cols)

\* A faulty variant: the files were listed for this namespace anyway.
IsolatedByListing(rows, ns) == rows
\* The FilterExec over the scan, before projection can drop the column.
Isolated(rows, ns) == SelectSeq(rows, LAMBDA row : row[PackingKey] = ns)

\* NULL if any part of it is.
AliasOf(row, refs) ==
    IF \E c \in refs : row[c] = Null THEN Null
    ELSE FoldLeft(LAMBDA n, c : n + row[c], 0, SetToSeq(refs))

Project(row, cols) ==
    [i \in DOMAIN cols |-> IF cols[i] \in Physical THEN row[cols[i]] ELSE AliasOf(row, Alias[cols[i]])]

\* The rows of one file, as the plan above it sees them.
Batch(p, q) ==
    LET scanned == [i \in DOMAIN p.rows |-> Restrict(p.rows[i], Needed(q.columns))]
        kept == Isolated(scanned, q.namespace)
    IN  [i \in DOMAIN kept |-> Project(kept[i], q.columns)]

\* get_metadata: from the cache, or the footer is fetched first.
OpenFile(r) ==
    LET c == call[r] IN
    /\ c.pc = "execute"
    /\ \E f \in c.left :
          LET path == f[2].path
              hit == CacheGet(path, ask[r].wants)
          IN
          /\ call' = [call EXCEPT ![r].pc = "footer", ![r].footer = <<f, hit>>]
          /\ footers' = Touched(path)
    /\ UNCHANGED <<worldVars, ask, lived>>

\* Two readers of a file may both have missed, and put in any order.
FetchFooter(r) ==
    LET c == call[r]
        f == c.footer[1]
    IN
    /\ c.pc = "footer" /\ c.footer[2] = None
    /\ \/ StoreFails(r, f[2]) /\ UNCHANGED footers
       \/ /\ Readable(f[2])
          /\ LET meta == Footer(f[2].path, ask[r].wants) IN
             /\ footers' = CachePut(f[2].path, meta)
             /\ call' = [call EXCEPT ![r].footer = <<f, meta>>]
    /\ UNCHANGED <<worldVars, ask, lived>>

ReadRows(r) ==
    LET c == call[r]
        f == c.footer[1]
    IN
    /\ c.pc = "footer" /\ c.footer[2] # None
    /\ \/ StoreFails(r, f[2])
       \/ /\ Readable(f[2])
          /\ call' = [call EXCEPT ![r].pc = "execute", ![r].footer = None,
                                  ![r].left = @ \ {f},
                                  ![r].batches = Append(@, <<f[1], Batch(f[2], ask[r])>>)]
    /\ UNCHANGED <<worldVars, footers, ask, lived>>
-----------------------------------------------------------------------------
(* Formatting. *)

Format(q) == IF q.format # None THEN q.format ELSE IF q.arrow THEN "arrow" ELSE "columns"

\* One array for each column, over all batches; the planned schema names the
\* columns when there is no batch.
ToColumns(batches, cols) ==
    [columns |-> [i \in DOMAIN cols |->
        FlattenSeq([b \in DOMAIN batches |-> [k \in DOMAIN batches[b] |-> batches[b][k][i]]])]]

\* One object for each row; a NULL has no member.
ToRows(batches, cols) ==
    [rows |-> LET all == FlattenSeq(batches) IN
        [k \in DOMAIN all |-> [i \in {j \in DOMAIN cols : all[k][j] # Null} |-> all[k][i]]]]

ToArrow(batches, cols) == [arrow |-> batches]

Body(q, batches) ==
    CASE Format(q) = "columns" -> ToColumns(batches, q.columns)
      [] Format(q) = "rows" -> ToRows(batches, q.columns)
      [] Format(q) = "arrow" -> ToArrow(batches, q.columns)

\* One body for each scan, for the reader of the model: what the SQL above the
\* scans makes of their rows is DataFusion's.
Respond(r) ==
    LET c == call[r]
        of(i) == LET mine == SelectSeq(c.batches, LAMBDA b : b[1] = i)
                 IN  [k \in DOMAIN mine |-> mine[k][2]]
    IN
    /\ c.pc = "execute" /\ c.left = {}
    /\ Answer(r, 200, [i \in 1 .. ask[r].scans |-> Body(ask[r], of(i))], None)
    /\ UNCHANGED <<worldVars, footers, ask, lived>>
-----------------------------------------------------------------------------
(* The world. *)

Commit ==
    /\ Len(commits) > 1
    /\ commits' = Tail(commits)
    /\ dead' = dead \cup (live \ commits[2])
    /\ lived' = [r \in Request |-> IF InAdmission(r) THEN lived[r] \cup {commits[2]} ELSE lived[r]]
    /\ UNCHANGED <<tables, catalog, storeUp, turns, reaped, footers, ask, call>>

Register ==
    /\ tables # Names(ask)
    /\ tables' = Names(ask)
    /\ UNCHANGED <<commits, catalog, storeUp, turns, dead, reaped, footers, ask, call, lived>>

HealthTurns ==
    /\ turns < Turns
    /\ turns' = turns + 1
    /\ \/ catalog' \in {"up", "down", "broken"} \ {catalog} /\ UNCHANGED storeUp
       \/ storeUp' = ~storeUp /\ UNCHANGED catalog
    /\ UNCHANGED <<commits, tables, dead, reaped, footers, ask, call, lived>>

Planned(r) == UNION {call[r].plans[i] : i \in DOMAIN call[r].plans}

\* GC waits out the tombstone grace, which is longer than a statement may run:
\* ObjectLifecycle shows that no query that planned the part is still running.
Reap ==
    /\ \E p \in dead \ reaped :
          /\ \A r \in Request : Running(r) => p \notin Planned(r)
          /\ reaped' = reaped \cup {p}
    /\ UNCHANGED <<commits, tables, catalog, storeUp, turns, dead, footers, ask, call, lived>>

Next ==
    \/ \E r \in Request :
          \/ Arrive(r) \/ Session(r) \/ Resolve(r) \/ Scan(r) \/ Admitted(r)
          \/ AdmissionTimeout(r) \/ StatementTimeout(r) \/ HangUp(r)
          \/ OpenFile(r) \/ FetchFooter(r) \/ ReadRows(r) \/ Respond(r)
    \/ Commit \/ Register \/ HealthTurns \/ Reap

Spec == Init /\ [][Next]_qsVars
-----------------------------------------------------------------------------
(* Properties. *)

\* What a client reads out of a body: a sequence of rows.
Decoded(q, body) ==
    CASE Format(q) = "columns" ->
            LET n == Len(body.columns[1]) IN
            [k \in 1 .. n |-> [i \in DOMAIN q.columns |-> body.columns[i][k]]]
      [] Format(q) = "rows" ->
            [k \in DOMAIN body.rows |-> [i \in DOMAIN q.columns |->
                IF i \in DOMAIN body.rows[k] THEN body.rows[k][i] ELSE Null]]
      [] Format(q) = "arrow" -> FlattenSeq(body.arrow)

\* What the namespace holds in a live set.
Holds(parts, q) ==
    LET ps == SetToSeq(parts)
        all == FlattenSeq([i \in DOMAIN ps |-> ps[i].rows])
        own == SelectSeq(all, LAMBDA row : row[PackingKey] = q.namespace)
    IN  [k \in DOMAIN own |-> Project(own[k], q.columns)]

Times(s, row) == Cardinality({k \in DOMAIN s : s[k] = row})
SameRows(s, t) == \A row \in ToSet(s) \cup ToSet(t) : Times(s, row) = Times(t, row)

\* The cache stays within its capacity with one entry for a path, and hands a
\* reader the footer of its file, with page indexes if it wants them, also
\* when a reader that did not want them put its footer last
\* (ParquetMetadataCache::get and put, get_metadata).
FootersServe ==
    /\ Len(footers) <= Capacity
    /\ \A i, j \in DOMAIN footers : footers[i].path = footers[j].path => i = j
    /\ \A r \in Request : call[r].pc = "footer" /\ call[r].footer[2] # None =>
          /\ call[r].footer[2].path = call[r].footer[1][2].path
          /\ ask[r].wants => call[r].footer[2].index

\* A 200 carries, for each scan, the namespace's rows, all of them and each
\* once, of one live set that was current while the request was admitted,
\* whatever was committed, compacted or reaped meanwhile, and in every format;
\* a catalog failure is never reported as the tenant's mistake (400), nor a
\* permanent one as retryable; and the shared footer cache serves every reader
\* (run_query_inner, admission_error, UkielTableProvider::scan, results.rs).
AnswersTrue ==
    FootersServe /\ \A r \in Request : call[r].pc = "answered" =>
        /\ call[r].status = 200 => \A i \in 1 .. ask[r].scans : \E parts \in lived[r] :
              SameRows(Decoded(ask[r], call[r].body[i]), Holds(parts, ask[r]))
        /\ call[r].status = 400 => call[r].met \in {"unknown", "store"}
        /\ call[r].status = 500 => call[r].met = "broken"
        /\ call[r].status = 503 => call[r].met \in {"down", "slow"}
=============================================================================
