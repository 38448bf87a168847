----------------------- MODULE ObjectLifecycleProofs ------------------------
(***************************************************************************)
(* GC never takes the object of a live part, nor one a running query still  *)
(* has to read, for any number of uploads, GC workers and queries, as long  *)
(* as uploads, transactions, queries and reconcile passes keep within their *)
(* durations.                                                               *)
(*                                                                          *)
(* The argument: an upload in flight has a young intent (Uploads); what is  *)
(* live, or tombstoned within the grace, is in the bucket (Stored); what a  *)
(* worker is authorized to delete can never become live again, nor be on a  *)
(* query's list (Authorized, Planned); and what reconcile overlooked in the *)
(* catalog, because it landed between two reads, is still too young to be   *)
(* listed as an orphan (Reconciling).                                       *)
(***************************************************************************)
EXTENDS ObjectLifecycle, TLAPS

\* The uploads in flight and one reconcile pass fit into the orphan grace.
Unhurried == MaxInflight + MaxList < OrphanGrace

Uploads ==
    \A p \in Path :
       /\ wst[p] = "new" => p \notin intent
       /\ p \notin intent => iage[p] = 0
       /\ p \notin store => oage[p] = 0
       /\ wst[p] \in {"new", "registered", "lost"} => p \notin store
       /\ wst[p] \in {"registered", "uploaded"} => p \in intent /\ iage[p] <= MaxInflight
       /\ wst[p] = "uploaded" => p \in store /\ oage[p] <= iage[p]
       /\ row[p] # "none" => wst[p] = "over" /\ p \notin intent

Stored ==
    \A p \in Path :
       /\ row[p] = "live" => p \in store
       /\ row[p] = "tomb" /\ tage[p] < TombGrace => p \in store
       /\ row[p] = "purged" => p \notin store

\* An upload that ended without a commit.
Failed(p) == wst[p] \in {"lost", "over"} /\ row[p] = "none"

\* A part whose tombstone grace is over.
Expired(p) == row[p] = "purged" \/ (row[p] = "tomb" /\ tage[p] >= TombGrace)

Authorized ==
    \A g \in Gc :
       /\ gpc[g] \in {"reapDelete", "stamp"} => cand[g] \in Path /\ Expired(cand[g])
       /\ gpc[g] = "stamp" => cand[g] \notin store
       /\ gpc[g] \in {"sweepDelete", "clear"} => cand[g] \in Path /\ Failed(cand[g])

Reconciling ==
    \A g \in Gc :
       /\ gpc[g] \in {"pending", "list"} =>
             \A p \in Path \ known[g] :
                row[p] \in {"live", "tomb"} => oage[p] <= MaxInflight + gage[g]
       /\ gpc[g] = "delete" => \A p \in victims[g] : Failed(p)

Planned ==
    \A q \in Query : \A p \in todo[q] :
       row[p] = "live" \/ (row[p] = "tomb" /\ tage[p] <= MaxTxn + qage[q])

Safe == TypeOK /\ Uploads /\ Stored /\ Authorized /\ Reconciling /\ Planned

\* A step keeps every variable in its type.
LEMMA TypeStep ==
    ASSUME TypeOK, Authorized, [Next]_vars
    PROVE  TypeOK'
<1> USE LifecycleAssumption     DEF objVars, catVars, gcVars, queryVars, TypeOK,
        ObjTypeOK, CatTypeOK, WriterTypeOK, GcTypeOK, QueryTypeOK, Authorized
<1>1. ASSUME NEW p \in Path, Register(p) PROVE TypeOK'
  BY <1>1, Zenon DEF Register
<1>2. ASSUME NEW p \in Path, Upload(p) PROVE TypeOK'
  BY <1>2, Zenon DEF Upload
<1>3. ASSUME NEW p \in Path, GiveUp(p) PROVE TypeOK'
  BY <1>3, Zenon DEF GiveUp
<1>4. ASSUME NEW p \in Path, LatePut(p) PROVE TypeOK'
  BY <1>4, Zenon DEF LatePut
<1>5. ASSUME NEW p \in Path, NEW olds \in SUBSET Live, NEW began \in 0..MaxTxn,
           Commit(p, olds, began) PROVE TypeOK'
  BY <1>5 DEF Commit, Tombstone, Live
<1>6. ASSUME NEW olds \in SUBSET Live, NEW began \in 0..MaxTxn, Drop(olds, began) PROVE TypeOK'
  BY <1>6 DEF Drop, Tombstone, Live
<1>7. ASSUME NEW q \in Query, Plan(q) PROVE TypeOK'
  BY <1>7, Zenon DEF Plan, Live
<1>8. ASSUME NEW q \in Query, NEW left \in SUBSET todo[q], ReadPart(q, left) PROVE TypeOK'
  BY <1>8 DEF ReadPart
<1>9. ASSUME NEW g \in Gc, NextReapable(g) PROVE TypeOK'
  BY <1>9 DEF NextReapable, Goto, Authorize, Reapable
<1>10. ASSUME NEW g \in Gc, ReapDone(g) PROVE TypeOK'
  BY <1>10, Zenon DEF ReapDone, Goto
<1>11. ASSUME NEW g \in Gc, ReapDelete(g) PROVE TypeOK'
  BY <1>11 DEF ReapDelete, Goto, Erase
<1>12. ASSUME NEW g \in Gc, MarkPurged(g) PROVE TypeOK'
  BY <1>12 DEF MarkPurged, Goto, Authorize
<1>13. ASSUME NEW g \in Gc, NextOrphaned(g) PROVE TypeOK'
  BY <1>13 DEF NextOrphaned, Goto, Authorize, Orphaned
<1>14. ASSUME NEW g \in Gc, SweepDelete(g) PROVE TypeOK'
  BY <1>14 DEF SweepDelete, Goto, Erase
<1>15. ASSUME NEW g \in Gc, ClearPending(g) PROVE TypeOK'
  BY <1>15 DEF ClearPending, Goto, Authorize
<1>16. ASSUME NEW g \in Gc, SweepDone(g) PROVE TypeOK'
  BY <1>16, Zenon DEF SweepDone, Goto
<1>17. ASSUME NEW g \in Gc, AllPartPaths(g) PROVE TypeOK'
  BY <1>17, Zenon DEF AllPartPaths, Goto
<1>18. ASSUME NEW g \in Gc, AllPendingPaths(g) PROVE TypeOK'
  BY <1>18, Zenon DEF AllPendingPaths, Goto
<1>19. ASSUME NEW g \in Gc, List(g) PROVE TypeOK'
  BY <1>19 DEF List, Goto, Unknown
<1>20. ASSUME NEW g \in Gc, DeleteUnknown(g) PROVE TypeOK'
  BY <1>20 DEF DeleteUnknown, Erase
<1>21. ASSUME NEW g \in Gc, ReconcileDone(g) PROVE TypeOK'
  BY <1>21, Zenon DEF ReconcileDone, Goto
<1>22. ASSUME NEW g \in Gc, AbortPass(g) PROVE TypeOK'
  BY <1>22 DEF AbortPass, Goto, Authorize
<1>23. ASSUME Tick PROVE TypeOK'
  BY <1>23 DEF Tick, Older, InFlight, Reading, Running
<1>24. CASE UNCHANGED vars
  BY <1>24, Zenon DEF vars
<1> QED BY <1>1, <1>2, <1>3, <1>4, <1>5, <1>6, <1>7, <1>8, <1>9, <1>10, <1>11,
           <1>12, <1>13, <1>14, <1>15, <1>16, <1>17, <1>18, <1>19, <1>20, <1>21,
           <1>22, <1>23, <1>24, ZenonT(30)
        DEF Next, WriterStep, QueryStep, GcStep

\* A step keeps an upload in flight covered by a young intent.
LEMMA UploadsStep ==
    ASSUME TypeOK, Uploads, Authorized, Reconciling, [Next]_vars
    PROVE  Uploads'
<1> USE LifecycleAssumption     DEF objVars, catVars, gcVars, queryVars,
        Uploads, TypeOK, ObjTypeOK, CatTypeOK, WriterTypeOK, GcTypeOK,
        QueryTypeOK, Authorized, Reconciling, Failed, Expired
<1>1. ASSUME NEW p \in Path, Register(p) PROVE Uploads'
  BY <1>1 DEF Register
<1>2. ASSUME NEW p \in Path, Upload(p) PROVE Uploads'
  BY <1>2 DEF Upload
<1>3. ASSUME NEW p \in Path, GiveUp(p) PROVE Uploads'
  BY <1>3 DEF GiveUp
<1>4. ASSUME NEW p \in Path, LatePut(p) PROVE Uploads'
  BY <1>4, Zenon DEF LatePut
<1>5. ASSUME NEW p \in Path, NEW olds \in SUBSET Live, NEW began \in 0..MaxTxn,
           Commit(p, olds, began) PROVE Uploads'
  BY <1>5 DEF Commit, Tombstone, Live
<1>6. ASSUME NEW olds \in SUBSET Live, NEW began \in 0..MaxTxn, Drop(olds, began) PROVE Uploads'
  BY <1>6, Zenon DEF Drop, Tombstone, Live
<1>7. ASSUME NEW q \in Query, Plan(q) PROVE Uploads'
  BY <1>7, Zenon DEF Plan, Live
<1>8. ASSUME NEW q \in Query, NEW left \in SUBSET todo[q], ReadPart(q, left) PROVE Uploads'
  BY <1>8, Zenon DEF ReadPart
<1>9. ASSUME NEW g \in Gc, NextReapable(g) PROVE Uploads'
  BY <1>9, Zenon DEF NextReapable, Goto, Authorize, Reapable
<1>10. ASSUME NEW g \in Gc, ReapDone(g) PROVE Uploads'
  BY <1>10, Zenon DEF ReapDone, Goto
<1>11. ASSUME NEW g \in Gc, ReapDelete(g) PROVE Uploads'
  BY <1>11, Zenon DEF ReapDelete, Goto, Erase
<1>12. ASSUME NEW g \in Gc, MarkPurged(g) PROVE Uploads'
  BY <1>12, Zenon DEF MarkPurged, Goto, Authorize
<1>13. ASSUME NEW g \in Gc, NextOrphaned(g) PROVE Uploads'
  BY <1>13, Zenon DEF NextOrphaned, Goto, Authorize, Orphaned
<1>14. ASSUME NEW g \in Gc, SweepDelete(g) PROVE Uploads'
  BY <1>14, ZenonT(30) DEF SweepDelete, Goto, Erase
<1>15. ASSUME NEW g \in Gc, ClearPending(g) PROVE Uploads'
  BY <1>15, Zenon DEF ClearPending, Goto, Authorize
<1>16. ASSUME NEW g \in Gc, SweepDone(g) PROVE Uploads'
  BY <1>16, Zenon DEF SweepDone, Goto
<1>17. ASSUME NEW g \in Gc, AllPartPaths(g) PROVE Uploads'
  BY <1>17, Zenon DEF AllPartPaths, Goto
<1>18. ASSUME NEW g \in Gc, AllPendingPaths(g) PROVE Uploads'
  BY <1>18, Zenon DEF AllPendingPaths, Goto
<1>19. ASSUME NEW g \in Gc, List(g) PROVE Uploads'
  BY <1>19, Zenon DEF List, Goto, Unknown
<1>20. ASSUME NEW g \in Gc, DeleteUnknown(g) PROVE Uploads'
  BY <1>20 DEF DeleteUnknown, Erase
<1>21. ASSUME NEW g \in Gc, ReconcileDone(g) PROVE Uploads'
  BY <1>21, Zenon DEF ReconcileDone, Goto
<1>22. ASSUME NEW g \in Gc, AbortPass(g) PROVE Uploads'
  BY <1>22, Zenon DEF AbortPass, Goto, Authorize
<1>23. ASSUME Tick PROVE Uploads'
  BY <1>23 DEF Tick, Older, InFlight, Reading, Running
<1>24. CASE UNCHANGED vars
  BY <1>24, Zenon DEF vars
<1> QED BY <1>1, <1>2, <1>3, <1>4, <1>5, <1>6, <1>7, <1>8, <1>9, <1>10, <1>11,
           <1>12, <1>13, <1>14, <1>15, <1>16, <1>17, <1>18, <1>19, <1>20, <1>21,
           <1>22, <1>23, <1>24, ZenonT(30)
        DEF Next, WriterStep, QueryStep, GcStep

\* A step keeps what is live, or tombstoned within the grace, in the bucket.
LEMMA StoredStep ==
    ASSUME TypeOK, Uploads, Stored, Authorized, Reconciling, [Next]_vars
    PROVE  Stored'
<1> USE LifecycleAssumption     DEF objVars, catVars, gcVars, queryVars,
        Uploads, Stored, TypeOK, ObjTypeOK, CatTypeOK, WriterTypeOK, GcTypeOK,
        QueryTypeOK, Authorized, Reconciling, Failed, Expired
<1>1. ASSUME NEW p \in Path, Register(p) PROVE Stored'
  BY <1>1, Zenon DEF Register
<1>2. ASSUME NEW p \in Path, Upload(p) PROVE Stored'
  BY <1>2, Zenon DEF Upload
<1>3. ASSUME NEW p \in Path, GiveUp(p) PROVE Stored'
  BY <1>3, Zenon DEF GiveUp
<1>4. ASSUME NEW p \in Path, LatePut(p) PROVE Stored'
  BY <1>4, Zenon DEF LatePut
<1>5. ASSUME NEW p \in Path, NEW olds \in SUBSET Live, NEW began \in 0..MaxTxn,
           Commit(p, olds, began) PROVE Stored'
  BY <1>5, Zenon DEF Commit, Tombstone, Live
<1>6. ASSUME NEW olds \in SUBSET Live, NEW began \in 0..MaxTxn, Drop(olds, began) PROVE Stored'
  BY <1>6, Zenon DEF Drop, Tombstone, Live
<1>7. ASSUME NEW q \in Query, Plan(q) PROVE Stored'
  BY <1>7, Zenon DEF Plan, Live
<1>8. ASSUME NEW q \in Query, NEW left \in SUBSET todo[q], ReadPart(q, left) PROVE Stored'
  BY <1>8, Zenon DEF ReadPart
<1>9. ASSUME NEW g \in Gc, NextReapable(g) PROVE Stored'
  BY <1>9, Zenon DEF NextReapable, Goto, Authorize, Reapable
<1>10. ASSUME NEW g \in Gc, ReapDone(g) PROVE Stored'
  BY <1>10, Zenon DEF ReapDone, Goto
<1>11. ASSUME NEW g \in Gc, ReapDelete(g) PROVE Stored'
  BY <1>11 DEF ReapDelete, Goto, Erase
<1>12. ASSUME NEW g \in Gc, MarkPurged(g) PROVE Stored'
  BY <1>12, ZenonT(30) DEF MarkPurged, Goto, Authorize
<1>13. ASSUME NEW g \in Gc, NextOrphaned(g) PROVE Stored'
  BY <1>13, Zenon DEF NextOrphaned, Goto, Authorize, Orphaned
<1>14. ASSUME NEW g \in Gc, SweepDelete(g) PROVE Stored'
  BY <1>14, Zenon DEF SweepDelete, Goto, Erase
<1>15. ASSUME NEW g \in Gc, ClearPending(g) PROVE Stored'
  BY <1>15, Zenon DEF ClearPending, Goto, Authorize
<1>16. ASSUME NEW g \in Gc, SweepDone(g) PROVE Stored'
  BY <1>16, Zenon DEF SweepDone, Goto
<1>17. ASSUME NEW g \in Gc, AllPartPaths(g) PROVE Stored'
  BY <1>17, Zenon DEF AllPartPaths, Goto
<1>18. ASSUME NEW g \in Gc, AllPendingPaths(g) PROVE Stored'
  BY <1>18, Zenon DEF AllPendingPaths, Goto
<1>19. ASSUME NEW g \in Gc, List(g) PROVE Stored'
  BY <1>19, Zenon DEF List, Goto, Unknown
<1>20. ASSUME NEW g \in Gc, DeleteUnknown(g) PROVE Stored'
  BY <1>20, ZenonT(30) DEF DeleteUnknown, Erase
<1>21. ASSUME NEW g \in Gc, ReconcileDone(g) PROVE Stored'
  BY <1>21, Zenon DEF ReconcileDone, Goto
<1>22. ASSUME NEW g \in Gc, AbortPass(g) PROVE Stored'
  BY <1>22, Zenon DEF AbortPass, Goto, Authorize
<1>23. ASSUME Tick PROVE Stored'
  BY <1>23 DEF Tick, Older, InFlight, Reading, Running
<1>24. CASE UNCHANGED vars
  BY <1>24, Zenon DEF vars
<1> QED BY <1>1, <1>2, <1>3, <1>4, <1>5, <1>6, <1>7, <1>8, <1>9, <1>10, <1>11,
           <1>12, <1>13, <1>14, <1>15, <1>16, <1>17, <1>18, <1>19, <1>20, <1>21,
           <1>22, <1>23, <1>24, ZenonT(30)
        DEF Next, WriterStep, QueryStep, GcStep

\* A step keeps every authorized path dead.
LEMMA AuthorizedStep ==
    ASSUME TypeOK, Uploads, Stored, Authorized, [Next]_vars
    PROVE  Authorized'
<1> USE LifecycleAssumption     DEF objVars, catVars, gcVars, queryVars,
        Uploads, Stored, TypeOK, ObjTypeOK, CatTypeOK, WriterTypeOK, GcTypeOK,
        QueryTypeOK, Authorized, Failed, Expired
<1>1. ASSUME NEW p \in Path, Register(p) PROVE Authorized'
  BY <1>1, Zenon DEF Register
<1>2. ASSUME NEW p \in Path, Upload(p) PROVE Authorized'
  BY <1>2, Zenon DEF Upload
<1>3. ASSUME NEW p \in Path, GiveUp(p) PROVE Authorized'
  BY <1>3, Zenon DEF GiveUp
<1>4. ASSUME NEW p \in Path, LatePut(p) PROVE Authorized'
  BY <1>4, Zenon DEF LatePut
<1>5. ASSUME NEW p \in Path, NEW olds \in SUBSET Live, NEW began \in 0..MaxTxn,
           Commit(p, olds, began) PROVE Authorized'
  BY <1>5, Zenon DEF Commit, Tombstone, Live
<1>6. ASSUME NEW olds \in SUBSET Live, NEW began \in 0..MaxTxn, Drop(olds, began) PROVE Authorized'
  BY <1>6, Zenon DEF Drop, Tombstone, Live
<1>7. ASSUME NEW q \in Query, Plan(q) PROVE Authorized'
  BY <1>7, Zenon DEF Plan, Live
<1>8. ASSUME NEW q \in Query, NEW left \in SUBSET todo[q], ReadPart(q, left) PROVE Authorized'
  BY <1>8, Zenon DEF ReadPart
<1>9. ASSUME NEW g \in Gc, NextReapable(g) PROVE Authorized'
  BY <1>9 DEF NextReapable, Goto, Authorize, Reapable
<1>10. ASSUME NEW g \in Gc, ReapDone(g) PROVE Authorized'
  BY <1>10, Zenon DEF ReapDone, Goto
<1>11. ASSUME NEW g \in Gc, ReapDelete(g) PROVE Authorized'
  BY <1>11, Zenon DEF ReapDelete, Goto, Erase
<1>12. ASSUME NEW g \in Gc, MarkPurged(g) PROVE Authorized'
  BY <1>12, Zenon DEF MarkPurged, Goto, Authorize
<1>13. ASSUME NEW g \in Gc, NextOrphaned(g) PROVE Authorized'
  BY <1>13 DEF NextOrphaned, Goto, Authorize, Orphaned
<1>14. ASSUME NEW g \in Gc, SweepDelete(g) PROVE Authorized'
  BY <1>14, Zenon DEF SweepDelete, Goto, Erase
<1>15. ASSUME NEW g \in Gc, ClearPending(g) PROVE Authorized'
  BY <1>15, Zenon DEF ClearPending, Goto, Authorize
<1>16. ASSUME NEW g \in Gc, SweepDone(g) PROVE Authorized'
  BY <1>16, Zenon DEF SweepDone, Goto
<1>17. ASSUME NEW g \in Gc, AllPartPaths(g) PROVE Authorized'
  BY <1>17, Zenon DEF AllPartPaths, Goto
<1>18. ASSUME NEW g \in Gc, AllPendingPaths(g) PROVE Authorized'
  BY <1>18, Zenon DEF AllPendingPaths, Goto
<1>19. ASSUME NEW g \in Gc, List(g) PROVE Authorized'
  BY <1>19, Zenon DEF List, Goto, Unknown
<1>20. ASSUME NEW g \in Gc, DeleteUnknown(g) PROVE Authorized'
  BY <1>20, Zenon DEF DeleteUnknown, Erase
<1>21. ASSUME NEW g \in Gc, ReconcileDone(g) PROVE Authorized'
  BY <1>21, ZenonT(30) DEF ReconcileDone, Goto
<1>22. ASSUME NEW g \in Gc, AbortPass(g) PROVE Authorized'
  BY <1>22, Zenon DEF AbortPass, Goto, Authorize
<1>23. ASSUME Tick PROVE Authorized'
  BY <1>23 DEF Tick, Older, InFlight, Reading, Running
<1>24. CASE UNCHANGED vars
  BY <1>24, Zenon DEF vars
<1> QED BY <1>1, <1>2, <1>3, <1>4, <1>5, <1>6, <1>7, <1>8, <1>9, <1>10, <1>11,
           <1>12, <1>13, <1>14, <1>15, <1>16, <1>17, <1>18, <1>19, <1>20, <1>21,
           <1>22, <1>23, <1>24, ZenonT(30)
        DEF Next, WriterStep, QueryStep, GcStep

\* A step keeps what reconcile overlooked too young for the listing.
LEMMA ReconcilingStep ==
    ASSUME TypeOK, Unhurried, Uploads, Stored, Authorized, Reconciling, [Next]_vars
    PROVE  Reconciling'
<1> USE LifecycleAssumption     DEF objVars, catVars, gcVars, queryVars,
        Unhurried, Uploads, Stored, TypeOK, ObjTypeOK, CatTypeOK, WriterTypeOK,
        GcTypeOK, QueryTypeOK, Authorized, Reconciling, Failed, Expired
<1>1. ASSUME NEW p \in Path, Register(p) PROVE Reconciling'
  BY <1>1, Zenon DEF Register
<1>2. ASSUME NEW p \in Path, Upload(p) PROVE Reconciling'
  BY <1>2, Zenon DEF Upload
<1>3. ASSUME NEW p \in Path, GiveUp(p) PROVE Reconciling'
  BY <1>3, Zenon DEF GiveUp
<1>4. ASSUME NEW p \in Path, LatePut(p) PROVE Reconciling'
  BY <1>4, Zenon DEF LatePut
<1>5. ASSUME NEW p \in Path, NEW olds \in SUBSET Live, NEW began \in 0..MaxTxn,
           Commit(p, olds, began) PROVE Reconciling'
  BY <1>5 DEF Commit, Tombstone, Live
<1>6. ASSUME NEW olds \in SUBSET Live, NEW began \in 0..MaxTxn, Drop(olds, began) PROVE Reconciling'
  BY <1>6, Zenon DEF Drop, Tombstone, Live
<1>7. ASSUME NEW q \in Query, Plan(q) PROVE Reconciling'
  BY <1>7, Zenon DEF Plan, Live
<1>8. ASSUME NEW q \in Query, NEW left \in SUBSET todo[q], ReadPart(q, left) PROVE Reconciling'
  BY <1>8, Zenon DEF ReadPart
<1>9. ASSUME NEW g \in Gc, NextReapable(g) PROVE Reconciling'
  BY <1>9, Zenon DEF NextReapable, Goto, Authorize, Reapable
<1>10. ASSUME NEW g \in Gc, ReapDone(g) PROVE Reconciling'
  BY <1>10, ZenonT(30) DEF ReapDone, Goto
<1>11. ASSUME NEW g \in Gc, ReapDelete(g) PROVE Reconciling'
  BY <1>11 DEF ReapDelete, Goto, Erase
<1>12. ASSUME NEW g \in Gc, MarkPurged(g) PROVE Reconciling'
  BY <1>12 DEF MarkPurged, Goto, Authorize
<1>13. ASSUME NEW g \in Gc, NextOrphaned(g) PROVE Reconciling'
  BY <1>13 DEF NextOrphaned, Goto, Authorize, Orphaned
<1>14. ASSUME NEW g \in Gc, SweepDelete(g) PROVE Reconciling'
  BY <1>14 DEF SweepDelete, Goto, Erase
<1>15. ASSUME NEW g \in Gc, ClearPending(g) PROVE Reconciling'
  BY <1>15, ZenonT(30) DEF ClearPending, Goto, Authorize
<1>16. ASSUME NEW g \in Gc, SweepDone(g) PROVE Reconciling'
  BY <1>16 DEF SweepDone, Goto
<1>17. ASSUME NEW g \in Gc, AllPartPaths(g) PROVE Reconciling'
  BY <1>17 DEF AllPartPaths, Goto
<1>18. ASSUME NEW g \in Gc, AllPendingPaths(g) PROVE Reconciling'
  BY <1>18 DEF AllPendingPaths, Goto
<1>19. ASSUME NEW g \in Gc, List(g) PROVE Reconciling'
  BY <1>19 DEF List, Goto, Unknown
<1>20. ASSUME NEW g \in Gc, DeleteUnknown(g) PROVE Reconciling'
  BY <1>20 DEF DeleteUnknown, Erase
<1>21. ASSUME NEW g \in Gc, ReconcileDone(g) PROVE Reconciling'
  BY <1>21, ZenonT(30) DEF ReconcileDone, Goto
<1>22. ASSUME NEW g \in Gc, AbortPass(g) PROVE Reconciling'
  BY <1>22 DEF AbortPass, Goto, Authorize
<1>23. ASSUME Tick PROVE Reconciling'
  BY <1>23 DEF Tick, Older, InFlight, Reading, Running
<1>24. CASE UNCHANGED vars
  BY <1>24, Zenon DEF vars
<1> QED BY <1>1, <1>2, <1>3, <1>4, <1>5, <1>6, <1>7, <1>8, <1>9, <1>10, <1>11,
           <1>12, <1>13, <1>14, <1>15, <1>16, <1>17, <1>18, <1>19, <1>20, <1>21,
           <1>22, <1>23, <1>24, ZenonT(30)
        DEF Next, WriterStep, QueryStep, GcStep

\* A step leaves a running query no part past its tombstone grace.
LEMMA PlannedStep ==
    ASSUME TypeOK, Planned, Authorized, [Next]_vars
    PROVE  Planned'
<1> USE LifecycleAssumption     DEF objVars, catVars, gcVars, queryVars,
        Planned, TypeOK, ObjTypeOK, CatTypeOK, WriterTypeOK, GcTypeOK,
        QueryTypeOK, Authorized, Expired
<1>1. ASSUME NEW p \in Path, Register(p) PROVE Planned'
  BY <1>1, Zenon DEF Register
<1>2. ASSUME NEW p \in Path, Upload(p) PROVE Planned'
  BY <1>2, Zenon DEF Upload
<1>3. ASSUME NEW p \in Path, GiveUp(p) PROVE Planned'
  BY <1>3, Zenon DEF GiveUp
<1>4. ASSUME NEW p \in Path, LatePut(p) PROVE Planned'
  BY <1>4, Zenon DEF LatePut
<1>5. ASSUME NEW p \in Path, NEW olds \in SUBSET Live, NEW began \in 0..MaxTxn,
           Commit(p, olds, began) PROVE Planned'
  BY <1>5 DEF Commit, Tombstone, Live
<1>6. ASSUME NEW olds \in SUBSET Live, NEW began \in 0..MaxTxn, Drop(olds, began) PROVE Planned'
  BY <1>6 DEF Drop, Tombstone, Live
<1>7. ASSUME NEW q \in Query, Plan(q) PROVE Planned'
  BY <1>7, ZenonT(30) DEF Plan, Live
<1>8. ASSUME NEW q \in Query, NEW left \in SUBSET todo[q], ReadPart(q, left) PROVE Planned'
  BY <1>8, Zenon DEF ReadPart
<1>9. ASSUME NEW g \in Gc, NextReapable(g) PROVE Planned'
  BY <1>9, Zenon DEF NextReapable, Goto, Authorize, Reapable
<1>10. ASSUME NEW g \in Gc, ReapDone(g) PROVE Planned'
  BY <1>10, Zenon DEF ReapDone, Goto
<1>11. ASSUME NEW g \in Gc, ReapDelete(g) PROVE Planned'
  BY <1>11, Zenon DEF ReapDelete, Goto, Erase
<1>12. ASSUME NEW g \in Gc, MarkPurged(g) PROVE Planned'
  BY <1>12 DEF MarkPurged, Goto, Authorize
<1>13. ASSUME NEW g \in Gc, NextOrphaned(g) PROVE Planned'
  BY <1>13, Zenon DEF NextOrphaned, Goto, Authorize, Orphaned
<1>14. ASSUME NEW g \in Gc, SweepDelete(g) PROVE Planned'
  BY <1>14, Zenon DEF SweepDelete, Goto, Erase
<1>15. ASSUME NEW g \in Gc, ClearPending(g) PROVE Planned'
  BY <1>15, Zenon DEF ClearPending, Goto, Authorize
<1>16. ASSUME NEW g \in Gc, SweepDone(g) PROVE Planned'
  BY <1>16, Zenon DEF SweepDone, Goto
<1>17. ASSUME NEW g \in Gc, AllPartPaths(g) PROVE Planned'
  BY <1>17, Zenon DEF AllPartPaths, Goto
<1>18. ASSUME NEW g \in Gc, AllPendingPaths(g) PROVE Planned'
  BY <1>18, Zenon DEF AllPendingPaths, Goto
<1>19. ASSUME NEW g \in Gc, List(g) PROVE Planned'
  BY <1>19, Zenon DEF List, Goto, Unknown
<1>20. ASSUME NEW g \in Gc, DeleteUnknown(g) PROVE Planned'
  BY <1>20, Zenon DEF DeleteUnknown, Erase
<1>21. ASSUME NEW g \in Gc, ReconcileDone(g) PROVE Planned'
  BY <1>21, Zenon DEF ReconcileDone, Goto
<1>22. ASSUME NEW g \in Gc, AbortPass(g) PROVE Planned'
  BY <1>22, Zenon DEF AbortPass, Goto, Authorize
<1>23. ASSUME Tick PROVE Planned'
  BY <1>23 DEF Tick, Older, InFlight, Reading, Running
<1>24. CASE UNCHANGED vars
  BY <1>24, Zenon DEF vars
<1> QED BY <1>1, <1>2, <1>3, <1>4, <1>5, <1>6, <1>7, <1>8, <1>9, <1>10, <1>11,
           <1>12, <1>13, <1>14, <1>15, <1>16, <1>17, <1>18, <1>19, <1>20, <1>21,
           <1>22, <1>23, <1>24, ZenonT(30)
        DEF Next, WriterStep, QueryStep, GcStep

(***************************************************************************)
(* With uploads, transactions, queries and reconcile passes within their    *)
(* durations, Safe is an invariant of the code's steps.                     *)
(***************************************************************************)
THEOREM GcDiscipline ==
    ASSUME Unhurried
    PROVE  Spec => []Safe
<1>1. Init => Safe
  BY LifecycleAssumption
     DEF Init, Zero, Safe, TypeOK, ObjTypeOK, CatTypeOK, WriterTypeOK, GcTypeOK,
         QueryTypeOK, Uploads, Stored, Authorized, Reconciling, Planned
<1>2. Safe /\ [Next]_vars => Safe'
  BY Unhurried, TypeStep, UploadsStep, StoredStep, AuthorizedStep, ReconcilingStep,
     PlannedStep, Zenon DEF Safe
<1> QED BY <1>1, <1>2, PTL DEF Spec

\* No sweep, reap or reconcile pass of any GC worker deletes the object of a
\* live part.
THEOREM LiveNeverDeleted ==
    ASSUME Unhurried
    PROVE  Spec => []LiveReadable
<1>1. Safe => LiveReadable
  BY ZenonT(30) DEF Safe, Stored, LiveReadable, Live
<1> QED BY Unhurried, GcDiscipline, <1>1, PTL

\* A query finds every object it planned to read, whatever is tombstoned and
\* reaped while it runs.
THEOREM PlannedNeverDeleted ==
    ASSUME Unhurried
    PROVE  Spec => []PlannedReadable
<1>1. Safe => PlannedReadable
  BY LifecycleAssumption
     DEF Safe, Planned, Stored, PlannedReadable, TypeOK, QueryTypeOK, CatTypeOK
<1> QED BY Unhurried, GcDiscipline, <1>1, PTL

\* No part, live or under a query, is ever missing from the bucket.
THEOREM NeverMissing ==
    ASSUME Unhurried
    PROVE  Spec => []NothingMissing
BY Unhurried, LiveNeverDeleted, PlannedNeverDeleted, PTL DEF NothingMissing

\* A row is stamped purged only after its object is gone.
THEOREM PurgedAfterDeletion ==
    ASSUME Unhurried
    PROVE  Spec => []PurgedIsGone
<1>1. Safe => PurgedIsGone
  BY DEF Safe, Stored, PurgedIsGone
<1> QED BY Unhurried, GcDiscipline, <1>1, PTL
=============================================================================
