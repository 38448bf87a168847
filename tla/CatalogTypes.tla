---------------------------- MODULE CatalogTypes ----------------------------
(***************************************************************************)
(* The data one hypertable's catalog is about, shared by the statement-     *)
(* level model (Catalog) and the atomic log it implements (CatalogLog).     *)
(*                                                                          *)
(* An attempt is one call of PostgresCatalog::commit*, that is one database *)
(* transaction.  It writes at most one output file, so the attempt's name   *)
(* also names the part it registers: every attempt uploads under a fresh    *)
(* UUID and no two attempts register the same object.  A part's content is  *)
(* the set of accepted rows it holds.                                       *)
(***************************************************************************)
EXTENDS Naturals

CONSTANTS
    Attempt,    \* transactions; also the parts they register
    Adds,       \* the ADD intents workers may submit (flushes, MV events)
    Row,        \* accepted source rows
    AddRows,    \* AddRows[a]: the rows intent a writes
    Lane,       \* (topic, partition) pairs with an ingest_offsets row
    AddRange,   \* AddRange[a][l]: the offset range intent a covers, or NoRange
    Victim,     \* the rows of the key a delete_key request erases
    NoKey, NoRange, NoAdd, Nobody

Range == [first : Nat, last : Nat]

(***************************************************************************)
(* What an attempt asks for: the CommitOp, its durable identity, the        *)
(* content of its output file and the offsets it accounts for.              *)
(* An identity names the work and never the attempt: the input parts of a   *)
(* rewrite, or the covered ranges / source event of an ADD.  Key and        *)
(* fingerprint are functions of that intent, so one value stands for both.  *)
(***************************************************************************)
Identity == [domain : {"ingest", "compaction", "delete-key"},
             parts : SUBSET Attempt, add : Adds \cup {NoAdd}]

Op == [kind : {"add", "replace", "delete"},
       key : Identity \cup {NoKey},
       old : SUBSET Attempt,
       rows : SUBSET Row,
       offs : [Lane -> Range \cup {NoRange}]]

NoOffsets == [l \in Lane |-> NoRange]

Overlap(r, q) == r.first <= q.last /\ q.first <= r.last

(***************************************************************************)
(* Sentinels differ from the values they stand beside; a range is not       *)
(* inverted (canonical_ranges); two intents carry a common row only when    *)
(* some lane's ranges overlap, because a row is identified by its offset.   *)
(***************************************************************************)
ASSUME SentinelAssumption ==
    /\ NoKey \notin Identity
    /\ NoRange \notin Range
    /\ NoAdd \notin Adds
    /\ Nobody \notin Attempt

ASSUME IntentAssumption ==
    /\ AddRows \in [Adds -> SUBSET Row]
    /\ AddRange \in [Adds -> [Lane -> Range \cup {NoRange}]]
    /\ Victim \subseteq Row
    /\ \A a \in Adds, l \in Lane :
          AddRange[a][l] # NoRange => AddRange[a][l].first <= AddRange[a][l].last
    /\ \A a, b \in Adds :
          a # b /\ AddRows[a] \cap AddRows[b] # {} =>
             \E l \in Lane : /\ AddRange[a][l] # NoRange
                             /\ AddRange[b][l] # NoRange
                             /\ Overlap(AddRange[a][l], AddRange[b][l])

(***************************************************************************)
(* The three write paths, each from what its worker read.                   *)
(***************************************************************************)
AddOp(a) ==
    [kind |-> "add",
     key  |-> [domain |-> "ingest", parts |-> {}, add |-> a],
     old  |-> {}, rows |-> AddRows[a], offs |-> AddRange[a]]

\* A ladder or finalization merge of the parts ps, whose rows are rs.
CompactionOp(ps, rs) ==
    [kind |-> "replace",
     key  |-> [domain |-> "compaction", parts |-> ps, add |-> NoAdd],
     old  |-> ps, rows |-> rs, offs |-> NoOffsets]

\* delete_key: rewrite the parts ps without the erased key's rows.
DeleteKeyOp(ps, rs) ==
    [kind |-> "replace",
     key  |-> [domain |-> "delete-key", parts |-> ps, add |-> NoAdd],
     old  |-> ps, rows |-> rs \ Victim, offs |-> NoOffsets]

\* An unkeyed DELETE of whole parts (retention).
DropOp(ps) ==
    [kind |-> "delete", key |-> NoKey,
     old  |-> ps, rows |-> {}, offs |-> NoOffsets]
=============================================================================
