----------------------- MODULE CompactionLeaseProofs ------------------------
(***************************************************************************)
(* A token that compares equal to the lease row belongs to the row's        *)
(* current tenancy, so a fenced REPLACE lands in the tenancy it was planned *)
(* under, for any number of workers, transactions and parts and any ttl.    *)
(*                                                                          *)
(* The argument: generations are drawn once (Draws), so tenancies have      *)
(* distinct generations (Distinct); every token, the row's and each         *)
(* transaction's name the tenancy they were handed out in (Named); a fenced *)
(* transaction keeps the row as it found it (Fenced); and what a merge      *)
(* loses, it loses to its own or a later tenancy (Losses).                  *)
(***************************************************************************)
EXTENDS CompactionLease, TLAPS, SequenceTheorems

Tenancy == 1..Len(tenancies)

Working == {"claimed", "merging", "committing", "releasing"}

Distinct ==
    /\ \A i \in Tenancy : tenancies[i].gen # 0 /\ tenancies[i].gen <= genSeq
    /\ \A i, j \in Tenancy : tenancies[i].gen = tenancies[j].gen => i = j

Draws ==
    /\ \A w \in Worker : wpc[w] = "asking" =>
          /\ draw[w].gen # 0 /\ draw[w].gen <= genSeq
          /\ \A i \in Tenancy : tenancies[i].gen # draw[w].gen
    /\ \A v, w \in Worker :
          wpc[v] = "asking" /\ wpc[w] = "asking" /\ draw[v].gen = draw[w].gen => v = w

RowNamed ==
    row # None =>
       /\ Len(tenancies) # 0
       /\ tenancies[Len(tenancies)].owner = row.owner
       /\ tenancies[Len(tenancies)].gen = row.gen

TokenNamed ==
    \A w \in Worker :
       /\ wpc[w] \in Working => tok[w] # 0
       /\ tok[w] # 0 => /\ wten[w] \in Tenancy
                        /\ tenancies[wten[w]].owner = w
                        /\ tenancies[wten[w]].gen = tok[w]

TxnNamed ==
    \A x \in Txn : tpc[x] # "none" =>
       /\ xten[x] \in Tenancy
       /\ tenancies[xten[x]].owner = tx[x].owner
       /\ tenancies[xten[x]].gen = tx[x].gen

Fenced ==
    \A x, y \in Txn : tpc[x] = "fenced" =>
       /\ Matches(tx[x].owner, tx[x].gen)
       /\ tpc[y] = "fenced" => x = y

\* Part p was tombstoned by a REPLACE of tenancy n or a later one.
LostTo(p, n) == \E y \in Txn : tpc[y] = "landed" /\ p \in tx[y].old /\ xten[y] >= n

Losses ==
    /\ \A w \in Worker : \A p \in plan[w] \ (live \cup erased) : LostTo(p, wten[w])
    /\ \A x \in Txn : tpc[x] \in {"sent", "fenced"} =>
          \A p \in tx[x].old \ (live \cup erased) : LostTo(p, xten[x])

\* A worker that awaits a transaction is committing; one with a plan is at work.
Busy ==
    /\ \A w \in Worker : mine[w] # None => wpc[w] = "committing"
    /\ \A w \in Worker : plan[w] # {} => wpc[w] \in {"merging", "committing"}

Named == Distinct /\ Draws /\ RowNamed /\ TokenNamed /\ TxnNamed

\* What no statement touches keeps its type.
LEMMA TypeKept ==
    /\ LeaseTypeOK /\ UNCHANGED leaseVars => LeaseTypeOK'
    /\ PartTypeOK /\ UNCHANGED partVars => PartTypeOK'
    /\ WorkTypeOK /\ UNCHANGED workVars => WorkTypeOK'
    /\ TxnTypeOK /\ UNCHANGED txnVars => TxnTypeOK'
<1>1. LeaseTypeOK /\ UNCHANGED leaseVars => LeaseTypeOK'
  BY Zenon DEF leaseVars, LeaseTypeOK
<1>2. PartTypeOK /\ UNCHANGED partVars => PartTypeOK'
  BY Zenon DEF partVars, PartTypeOK
<1>3. WorkTypeOK /\ UNCHANGED workVars => WorkTypeOK'
  BY Zenon DEF workVars, WorkTypeOK
<1>4. TxnTypeOK /\ UNCHANGED txnVars => TxnTypeOK'
  BY Zenon DEF txnVars, TxnTypeOK
<1> QED BY <1>1, <1>2, <1>3, <1>4, Zenon

\* A worker's step keeps every variable in its type.
LEMMA WorkerTyped ==
    ASSUME TypeOK, NEW w \in Worker, WorkerStep(w)
    PROVE  TypeOK'
<1> USE LeaseAssumption DEF TypeOK
<1>1. CASE DrawGeneration(w)
  <2>1. LeaseTypeOK' BY <1>1 DEF DrawGeneration, LeaseTypeOK
  <2>2. WorkTypeOK'
    BY <1>1 DEF DrawGeneration, WorkTypeOK, LeaseTypeOK
  <2> QED BY <1>1, <2>1, <2>2, TypeKept, Zenon DEF DrawGeneration
<1>2. ASSUME NEW g \in 0..MaxGen, NEW n \in Nat, Granted(w, g, n)
      PROVE  row' \in Lease \cup {None} /\ WorkTypeOK'
  BY <1>2 DEF Granted, NoDraw, WorkTypeOK, Lease
<1>3. CASE Acquire(w)
  <2>1. draw[w].gen \in 0..MaxGen /\ Len(tenancies) + 1 \in Nat
    BY DEF WorkTypeOK, LeaseTypeOK
  <2>2. tenancies' \in Seq([owner : Worker, gen : 0..MaxGen])
    BY <1>3, <2>1 DEF Acquire, LeaseTypeOK
  <2> QED BY <1>2, <1>3, <2>1, <2>2, TypeKept, ZenonT(30) DEF Acquire, Granted, LeaseTypeOK
<1>4. CASE Reacquire(w)
  <2>1. row.gen \in 0..MaxGen /\ Len(tenancies) \in Nat
    BY <1>4 DEF Reacquire, Unexpired, LeaseTypeOK, Lease
  <2> QED BY <1>2, <1>4, <2>1, TypeKept, ZenonT(30) DEF Reacquire, Granted, LeaseTypeOK
<1>5. CASE ClaimNothing(w)
  <2>1. WorkTypeOK' BY <1>5 DEF ClaimNothing, NoDraw, WorkTypeOK
  <2> QED BY <1>5, <2>1, TypeKept, Zenon DEF ClaimNothing
<1>6. CASE \E group \in SUBSET live : PlanMerge(w, group)
  <2>1. WorkTypeOK' BY <1>6 DEF PlanMerge, WorkTypeOK, PartTypeOK
  <2> QED BY <1>6, <2>1, TypeKept, Zenon DEF PlanMerge
<1>7. CASE StopWork(w) \/ RenewFails(w)
  <2>1. WorkTypeOK' BY <1>7, ZenonT(30) DEF StopWork, RenewFails, Finish, WorkTypeOK
  <2> QED BY <1>7, <2>1, TypeKept, Zenon DEF StopWork, RenewFails
<1>8. CASE Renew(w)
  <2>1. LeaseTypeOK' BY <1>8 DEF Renew, Unexpired, LeaseTypeOK, Lease
  <2> QED BY <1>8, <2>1, TypeKept, Zenon DEF Renew
<1>9. CASE \E x \in Txn : SendReplace(w, x)
  <2>1. PICK x \in Txn : SendReplace(w, x) BY <1>9, Zenon
  <2>2. WorkTypeOK' BY <2>1, Zenon DEF SendReplace, WorkTypeOK
  <2>3. TxnTypeOK' BY <2>1, Zenon DEF SendReplace, WorkTypeOK, TxnTypeOK
  <2> QED BY <2>1, <2>2, <2>3, TypeKept, Zenon DEF SendReplace
<1>10. CASE Release(w)
  <2>1. LeaseTypeOK' BY <1>10, Zenon DEF Release, LeaseTypeOK
  <2>2. WorkTypeOK' BY <1>10 DEF Release, Forget, WorkTypeOK
  <2> QED BY <1>10, <2>1, <2>2, TypeKept, Zenon DEF Release
<1>11. CASE ReleaseFails(w)
  <2>1. WorkTypeOK' BY <1>11 DEF ReleaseFails, Forget, WorkTypeOK
  <2> QED BY <1>11, <2>1, TypeKept, Zenon DEF ReleaseFails
<1>12. CASE Crash(w)
  <2>1. WorkTypeOK' BY <1>12 DEF Crash, Forget, NoDraw, WorkTypeOK
  <2> QED BY <1>12, <2>1, TypeKept, Zenon DEF Crash
<1> QED BY <1>1, <1>3, <1>4, <1>5, <1>6, <1>7, <1>8, <1>9, <1>10, <1>11, <1>12, Zenon
        DEF WorkerStep

\* A transaction's step keeps every variable in its type.
LEMMA TxnTyped ==
    ASSUME TypeOK, NEW x \in Txn, TxnStep(x)
    PROVE  TypeOK'
<1> USE LeaseAssumption DEF TypeOK
<1>1. CASE Fence(x)
  <2>1. TxnTypeOK' BY <1>1, Zenon DEF Fence, TxnTypeOK
  <2> QED BY <1>1, <2>1, TypeKept, Zenon DEF Fence
<1>2. ASSUME Answer(x) PROVE WorkTypeOK'
  BY <1>2, Zenon DEF Answer, WorkTypeOK
<1>3. CASE AnswerReplay(x) \/ Abort(x)
  <2>1. TxnTypeOK' BY <1>3 DEF AnswerReplay, Abort, Vanish, NoReplace, TxnTypeOK
  <2> QED BY <1>2, <1>3, <2>1, TypeKept, Zenon DEF AnswerReplay, Abort, Vanish, Answer
<1>4. CASE Land(x)
  <2>1. TxnTypeOK' BY <1>4, Zenon DEF Land, TxnTypeOK
  <2>2. PartTypeOK' BY <1>4 DEF Land, PartTypeOK, Part
  <2> QED BY <1>2, <1>4, <2>1, <2>2, TypeKept, Zenon DEF Land, Answer
<1> QED BY <1>1, <1>3, <1>4, Zenon DEF TxnStep

\* A step keeps every variable in its type.
LEMMA TypeStep ==
    ASSUME TypeOK, [Next]_vars
    PROVE  TypeOK'
<1>1. CASE IngestAdd
  <2>1. PartTypeOK' BY <1>1, LeaseAssumption DEF IngestAdd, TypeOK, PartTypeOK, Part
  <2> QED BY <1>1, <2>1, TypeKept, Zenon DEF IngestAdd, TypeOK
<1>2. ASSUME NEW ps \in SUBSET live, NEW kept \in 0..1, DeleteKey(ps, kept)
      PROVE  TypeOK'
  <2>1. PartTypeOK' BY <1>2, LeaseAssumption DEF DeleteKey, TypeOK, PartTypeOK, Part
  <2> QED BY <1>2, <2>1, TypeKept, Zenon DEF DeleteKey, TypeOK
<1>3. CASE Tick
  <2>1. \A n \in 0..Ttl : Dec(n) \in 0..Ttl BY LeaseAssumption DEF Dec
  <2>2. LeaseTypeOK' BY <1>3, <2>1, Zenon DEF Tick, TypeOK, LeaseTypeOK, Lease
  <2>3. WorkTypeOK' BY <1>3, <2>1, Zenon DEF Tick, TypeOK, WorkTypeOK
  <2> QED BY <1>3, <2>2, <2>3, TypeKept, Zenon DEF Tick, TypeOK
<1>4. CASE UNCHANGED vars
  BY <1>4, TypeKept, Zenon DEF vars, TypeOK
<1> QED BY <1>1, <1>2, <1>3, <1>4, WorkerTyped, TxnTyped, Zenon DEF Next

\* Steps that leave the tenancies, the tokens and the row's name alone.
LEMMA NamedKept ==
    ASSUME TypeOK, Named, UNCHANGED tenancies
    PROVE  /\ UNCHANGED <<genSeq>> => Distinct'
           /\ UNCHANGED <<genSeq, wpc, draw>> => Draws'
           /\ UNCHANGED row => RowNamed'
           /\ UNCHANGED <<wpc, tok, wten>> => TokenNamed'
           /\ UNCHANGED txnVars => TxnNamed'
<1>1. UNCHANGED <<genSeq>> => Distinct'
  BY Zenon DEF Named, Distinct, Tenancy
<1>2. UNCHANGED <<genSeq, wpc, draw>> => Draws'
  BY Zenon DEF Named, Draws, Tenancy
<1>3. UNCHANGED row => RowNamed'
  BY Zenon DEF Named, RowNamed
<1>4. UNCHANGED <<wpc, tok, wten>> => TokenNamed'
  BY Zenon DEF Named, TokenNamed, Tenancy
<1>5. UNCHANGED txnVars => TxnNamed'
  BY Zenon DEF Named, TxnNamed, Tenancy, txnVars
<1> QED BY <1>1, <1>2, <1>3, <1>4, <1>5, Zenon

\* A new tenancy under the generation its worker drew.
LEMMA AcquireNamed ==
    ASSUME TypeOK, Named, NEW w \in Worker, Acquire(w)
    PROVE  Named'
<1> DEFINE t == [owner |-> w, gen |-> draw[w].gen]
           n == Len(tenancies)
<1> USE DEF TypeOK
<1>1. /\ tenancies \in Seq([owner : Worker, gen : 0..MaxGen])
      /\ t \in [owner : Worker, gen : 0..MaxGen]
      /\ n \in Nat
      /\ tenancies' = Append(tenancies, t)
  BY DEF LeaseTypeOK, WorkTypeOK, Acquire
<1>2. /\ Len(tenancies') = n + 1
      /\ \A i \in 1..n : tenancies'[i] = tenancies[i]
      /\ tenancies'[n + 1] = t
  BY <1>1
<1>3. Tenancy' = Tenancy \cup {n + 1}
  BY <1>1, <1>2 DEF Tenancy
<1>4. /\ draw[w].gen # 0 /\ draw[w].gen <= genSeq
      /\ \A i \in Tenancy : tenancies[i].gen # draw[w].gen
      /\ \A v \in Worker : wpc[v] = "asking" /\ draw[v].gen = draw[w].gen => v = w
  BY Zenon DEF Acquire, Named, Draws
<1>5. genSeq' = genSeq /\ txnVars' = txnVars
  BY Zenon DEF Acquire, Granted
<1>6. \A v \in Worker : v # w =>
         wpc'[v] = wpc[v] /\ draw'[v] = draw[v] /\ tok'[v] = tok[v] /\ wten'[v] = wten[v]
  BY Zenon DEF Acquire, Granted, WorkTypeOK
<1>7. wpc'[w] = "claimed" /\ tok'[w] = draw[w].gen /\ wten'[w] = n + 1
  BY Zenon DEF Acquire, Granted, WorkTypeOK
<1>8. Distinct'
  BY <1>1, <1>2, <1>3, <1>4, <1>5 DEF Named, Distinct, Tenancy
<1>9. Draws'
  BY <1>1, <1>2, <1>3, <1>4, <1>5, <1>6, <1>7, SMTT(30) DEF Named, Draws, Tenancy
<1>10. RowNamed'
  BY <1>1, <1>2 DEF Acquire, Granted, RowNamed
<1>11. TokenNamed'
  BY <1>1, <1>2, <1>3, <1>4, <1>6, <1>7, SMTT(30) DEF Named, TokenNamed, Tenancy
<1>12. TxnNamed'
  BY <1>1, <1>2, <1>3, <1>5 DEF Named, TxnNamed, Tenancy, txnVars
<1> QED BY <1>8, <1>9, <1>10, <1>11, <1>12, Zenon DEF Named

\* A worker's step keeps draws, row, tokens and transactions named.
LEMMA WorkerNamed ==
    ASSUME TypeOK, Named, NEW w \in Worker, WorkerStep(w)
    PROVE  Named'
<1> USE LeaseAssumption
<1>1. CASE DrawGeneration(w)
  <2>1. /\ genSeq \in Nat /\ genSeq' = genSeq + 1
        /\ wpc'[w] = "asking" /\ draw'[w].gen = genSeq + 1
        /\ \A v \in Worker : v # w => wpc'[v] = wpc[v] /\ draw'[v] = draw[v]
        /\ UNCHANGED <<row, tenancies, tok, wten, txnVars>>
    BY <1>1 DEF DrawGeneration, TypeOK, LeaseTypeOK, WorkTypeOK
  <2>2. \A v \in Worker : draw[v].gen \in Nat
    BY DEF TypeOK, WorkTypeOK
  <2>3. \A i \in Tenancy : tenancies[i].gen \in Nat
    <3>1. \A i \in Tenancy : tenancies[i] \in [owner : Worker, gen : 0..MaxGen]
      BY ElementOfSeq, ZenonT(30) DEF TypeOK, LeaseTypeOK, Tenancy
    <3> QED BY <3>1
  <2>4. Distinct' BY <2>1, <2>3, SMTT(30) DEF Named, Distinct, Tenancy
  <2>5. Draws' BY <2>1, <2>2, <2>3, SMTT(30) DEF Named, Distinct, Draws, Tenancy
  <2>6. TokenNamed' BY <2>1, Zenon DEF Named, TokenNamed, Tenancy, Working
  <2> QED BY <2>1, <2>4, <2>5, <2>6, NamedKept, Zenon DEF Named
<1>2. CASE Acquire(w)
  BY <1>2, AcquireNamed, Zenon
<1>3. CASE Reacquire(w)
  <2>1. /\ UNCHANGED <<tenancies, genSeq, txnVars>>
        /\ row # None /\ row.owner = w
        /\ row'.owner = w /\ row'.gen = row.gen
        /\ wpc'[w] = "claimed" /\ tok'[w] = row.gen /\ wten'[w] = Len(tenancies)
        /\ \A v \in Worker : v # w =>
              wpc'[v] = wpc[v] /\ draw'[v] = draw[v] /\ tok'[v] = tok[v] /\ wten'[v] = wten[v]
    BY <1>3, Zenon DEF Reacquire, Granted, Unexpired, TypeOK, WorkTypeOK
  <2>2. /\ Len(tenancies) \in Tenancy
        /\ tenancies[Len(tenancies)].owner = w
        /\ tenancies[Len(tenancies)].gen = row.gen
    BY <2>1 DEF Named, RowNamed, Tenancy, TypeOK, LeaseTypeOK
  <2>3. RowNamed' BY <2>1, <2>2 DEF RowNamed, Tenancy
  <2>4. Draws' BY <2>1 DEF Named, Draws, Tenancy
  <2>5. row.gen # 0 BY <2>2, Zenon DEF Named, Distinct
  <2>6. TokenNamed' BY <2>1, <2>2, <2>5 DEF Named, TokenNamed, Tenancy
  <2> QED BY <2>1, <2>3, <2>4, <2>6, NamedKept, Zenon DEF Named
<1>4. CASE /\ UNCHANGED <<leaseVars, txnVars, tok, wten>>
           /\ \A v \in Worker : wpc'[v] = "asking" => wpc[v] = "asking" /\ draw'[v] = draw[v]
           /\ \A v \in Worker : wpc'[v] \in Working => wpc[v] \in Working
  <2>1. Draws' BY <1>4, ZenonT(30) DEF Named, Draws, Tenancy, leaseVars
  <2>2. TokenNamed' BY <1>4, Zenon DEF Named, TokenNamed, Tenancy, leaseVars
  <2> QED BY <1>4, <2>1, <2>2, NamedKept, Zenon DEF Named, leaseVars
<1>5. CASE ClaimNothing(w)
  BY <1>4, <1>5, Zenon DEF ClaimNothing, TypeOK, WorkTypeOK, Working
<1>6. CASE \E group \in SUBSET live : PlanMerge(w, group)
  BY <1>4, <1>6, Zenon DEF PlanMerge, TypeOK, WorkTypeOK, Working
<1>7. CASE StopWork(w) \/ RenewFails(w)
  BY <1>4, <1>7, Zenon DEF StopWork, RenewFails, Renewing, Finish, TypeOK, WorkTypeOK, Working
<1>8. CASE Renew(w)
  <2>1. RowNamed'
    BY <1>8, Zenon DEF Renew, Unexpired, Named, RowNamed
  <2> QED BY <1>8, <2>1, NamedKept, Zenon DEF Renew, Named, workVars
<1>9. CASE \E x \in Txn : SendReplace(w, x)
  <2>1. PICK x \in Txn : SendReplace(w, x) BY <1>9, Zenon
  <2>2. /\ wpc[w] = "merging" /\ wpc'[w] = "committing"
        /\ \A v \in Worker : v # w => wpc'[v] = wpc[v]
        /\ tx'[x].owner = w /\ tx'[x].gen = tok[w] /\ xten'[x] = wten[w]
        /\ \A y \in Txn : y # x => tpc'[y] = tpc[y] /\ tx'[y] = tx[y] /\ xten'[y] = xten[y]
        /\ UNCHANGED <<leaseVars, draw, tok, wten>>
    BY <2>1, Zenon DEF SendReplace, TypeOK, WorkTypeOK, TxnTypeOK
  <2>3. TxnNamed'
    <3>1. /\ xten'[x] \in Tenancy
          /\ tenancies[xten'[x]].owner = tx'[x].owner
          /\ tenancies[xten'[x]].gen = tx'[x].gen
      BY <2>2, ZenonT(30) DEF Named, TokenNamed, Working
    <3>2. ASSUME NEW y \in Txn, y # x, tpc'[y] # "none"
          PROVE  /\ xten'[y] \in Tenancy
                 /\ tenancies[xten'[y]].owner = tx'[y].owner
                 /\ tenancies[xten'[y]].gen = tx'[y].gen
      BY <2>2, <3>2, Zenon DEF Named, TxnNamed
    <3>3. tenancies' = tenancies BY <2>2, Zenon DEF leaseVars
    <3> QED BY <3>1, <3>2, <3>3, Zenon DEF TxnNamed, Tenancy
  <2>4. TokenNamed' BY <2>2, Zenon DEF Named, TokenNamed, Tenancy, Working, leaseVars
  <2>5. Draws' BY <2>2 DEF Named, Draws, Tenancy, leaseVars
  <2> QED BY <2>2, <2>3, <2>4, <2>5, NamedKept, Zenon DEF Named, leaseVars
<1>10. CASE Release(w) \/ ReleaseFails(w) \/ Crash(w)
  <2>1. /\ UNCHANGED <<tenancies, genSeq, txnVars>>
        /\ row' = row \/ row' = None
        /\ wpc'[w] \in {"idle", "dead"} /\ tok'[w] = 0
        /\ \A v \in Worker : v # w =>
              wpc'[v] = wpc[v] /\ draw'[v] = draw[v] /\ tok'[v] = tok[v] /\ wten'[v] = wten[v]
    BY <1>10, ZenonT(30) DEF Release, ReleaseFails, Crash, Forget, leaseVars, TypeOK, WorkTypeOK
  <2>2. RowNamed' BY <2>1, Zenon DEF Named, RowNamed
  <2>3. Draws' BY <2>1 DEF Named, Draws, Tenancy
  <2>4. TokenNamed' BY <2>1 DEF Named, TokenNamed, Tenancy, Working
  <2> QED BY <2>1, <2>2, <2>3, <2>4, NamedKept, Zenon DEF Named
<1> QED BY <1>1, <1>2, <1>3, <1>5, <1>6, <1>7, <1>8, <1>9, <1>10, Zenon DEF WorkerStep

\* Every other step does, too.
LEMMA NamedStep ==
    ASSUME TypeOK, Named, Busy, [Next]_vars
    PROVE  Named'
<1>1. ASSUME NEW x \in Txn, Answer(x)
      PROVE  Draws' /\ TokenNamed' /\ UNCHANGED <<leaseVars>>
  <2>1. /\ UNCHANGED <<leaseVars, draw, tok, wten>>
        /\ \A v \in Worker : \/ wpc'[v] = wpc[v]
                             \/ wpc'[v] = "releasing" /\ wpc[v] = "committing"
    BY <1>1, LeaseAssumption, Zenon DEF Answer, Busy, TypeOK, WorkTypeOK
  <2>2. Draws' BY <2>1, Zenon DEF Named, Draws, Tenancy, leaseVars
  <2>3. TokenNamed' BY <2>1, Zenon DEF Named, TokenNamed, Tenancy, Working, leaseVars
  <2> QED BY <2>1, <2>2, <2>3, Zenon
<1>2. ASSUME NEW x \in Txn, TxnStep(x) PROVE Named'
  <2>1. CASE Fence(x)
    <3>1. TxnNamed'
      BY <2>1, Zenon DEF Fence, Named, TxnNamed, Tenancy, leaseVars, TypeOK, TxnTypeOK
    <3> QED BY <2>1, <3>1, NamedKept, Zenon DEF Fence, Named, leaseVars, workVars
  <2>2. CASE AnswerReplay(x) \/ Abort(x)
    <3>1. Answer(x) BY <2>2, Zenon DEF AnswerReplay, Abort, Vanish
    <3>2. TxnNamed'
      BY <2>2, <3>1, ZenonT(30) DEF AnswerReplay, Abort, Vanish, Answer, Named, TxnNamed, Tenancy,
                        leaseVars, TypeOK, TxnTypeOK
    <3> QED BY <1>1, <3>1, <3>2, NamedKept, Zenon DEF Named, leaseVars
  <2>3. CASE Land(x)
    <3>1. TxnNamed'
      BY <2>3, Zenon DEF Land, Answer, Named, TxnNamed, Tenancy, leaseVars, TypeOK, TxnTypeOK
    <3>2. Answer(x) BY <2>3, Zenon DEF Land
    <3> QED BY <1>1, <3>1, <3>2, NamedKept, Zenon DEF Named, leaseVars
  <2> QED BY <1>2, <2>1, <2>2, <2>3, Zenon DEF TxnStep
<1>3. CASE IngestAdd \/ (\E ps \in SUBSET live, kept \in 0..1 : DeleteKey(ps, kept))
           \/ UNCHANGED vars
  <2>1. UNCHANGED <<leaseVars, workVars, txnVars>>
    BY <1>3, Zenon DEF IngestAdd, DeleteKey, vars
  <2> QED BY <2>1, NamedKept, Zenon DEF Named, leaseVars, workVars
<1>4. CASE Tick
  <2>1. /\ UNCHANGED <<genSeq, tenancies, wpc, tok, wten, txnVars>>
        /\ \A v \in Worker : draw'[v].gen = draw[v].gen
        /\ row' # None => row # None /\ row'.owner = row.owner /\ row'.gen = row.gen
    BY <1>4, Zenon DEF Tick, TypeOK, WorkTypeOK
  <2>2. Draws' BY <2>1, Zenon DEF Named, Draws, Tenancy
  <2>3. RowNamed' BY <2>1, Zenon DEF Named, RowNamed
  <2> QED BY <2>1, <2>2, <2>3, NamedKept, Zenon DEF Named
<1> QED BY <1>2, <1>3, <1>4, WorkerNamed, Zenon DEF Next

\* The row as a fenced transaction found it stays; only one is fenced.
LEMMA FencedStep ==
    ASSUME TypeOK, Fenced, [Next]_vars
    PROVE  Fenced'
<1> USE DEF TypeOK
<1>1. CASE /\ UNCHANGED txnVars
           /\ \/ RowFree
              \/ row' = row
              \/ row # None /\ row' # None /\ row'.owner = row.owner /\ row'.gen = row.gen
  BY <1>1, Zenon DEF RowFree, Fenced, Matches, txnVars
<1>2. ASSUME NEW w \in Worker, WorkerStep(w) PROVE Fenced'
  <2>1. CASE \E x \in Txn : SendReplace(w, x)
    BY <2>1 DEF SendReplace, Fenced, Matches, leaseVars, TxnTypeOK
  <2>2. CASE ~ \E x \in Txn : SendReplace(w, x)
    <3>1. UNCHANGED txnVars /\ (RowFree \/ row' = row)
      BY <1>2, <2>2, Zenon DEF WorkerStep, DrawGeneration, Acquire, Reacquire, Granted,
            ClaimNothing, PlanMerge, StopWork, Renew, RenewFails, Release,
            ReleaseFails, Crash, leaseVars
    <3> QED BY <1>1, <3>1, Zenon
  <2> QED BY <2>1, <2>2, Zenon
<1>3. ASSUME NEW x \in Txn, TxnStep(x) PROVE Fenced'
  <2>1. CASE Fence(x)
    BY <2>1, Zenon DEF Fence, RowFree, Fenced, Matches, leaseVars, TxnTypeOK
  <2>2. CASE /\ tpc'[x] # "fenced" /\ row' = row
             /\ \A y \in Txn : y # x => tpc'[y] = tpc[y] /\ tx'[y] = tx[y]
    BY <2>2, Zenon DEF Fenced, Matches
  <2>3. CASE AnswerReplay(x) \/ Abort(x) \/ Land(x)
    <3>1. tpc'[x] # "fenced" /\ \A y \in Txn : y # x => tpc'[y] = tpc[y] /\ tx'[y] = tx[y]
      BY <2>3, Zenon DEF AnswerReplay, Abort, Vanish, Land, TxnTypeOK
    <3>2. row' = row
      BY <2>3, Zenon DEF AnswerReplay, Abort, Vanish, Land, Answer, leaseVars
    <3> QED BY <2>2, <3>1, <3>2, Zenon
  <2> QED BY <1>3, <2>1, <2>3, Zenon DEF TxnStep
<1>4. CASE IngestAdd \/ (\E ps \in SUBSET live, kept \in 0..1 : DeleteKey(ps, kept))
           \/ UNCHANGED vars
  BY <1>1, <1>4, Zenon DEF IngestAdd, DeleteKey, vars, leaseVars
<1>5. CASE Tick
  <2>1. \/ row' = row
        \/ row # None /\ row' # None /\ row'.owner = row.owner /\ row'.gen = row.gen
    <3>1. CASE row = None BY <1>5, <3>1, Zenon DEF Tick
    <3>2. CASE row # None
      <4>1. row.owner \in Worker /\ row.gen \in Nat /\ Dec(row.left) \in Nat
        BY <3>2, LeaseAssumption DEF LeaseTypeOK, Lease, Dec
      <4> QED BY <1>5, <3>2, <4>1, LeaseAssumption DEF Tick
    <3> QED BY <3>1, <3>2, Zenon
  <2> QED BY <1>1, <1>5, <2>1, Zenon DEF Tick
<1> QED BY <1>2, <1>3, <1>4, <1>5, Zenon DEF Next

\* Plans and awaited transactions belong to workers that are at work.
LEMMA BusyStep ==
    ASSUME TypeOK, Busy, [Next]_vars
    PROVE  Busy'
<1> USE LeaseAssumption DEF TypeOK, WorkTypeOK
<1>1. ASSUME NEW w \in Worker, WorkerStep(w) PROVE Busy'
  <2>1. CASE DrawGeneration(w) BY <2>1, Zenon DEF DrawGeneration, Busy
  <2>2. CASE Acquire(w) \/ Reacquire(w)
    BY <2>2, Zenon DEF Acquire, Reacquire, Granted, Busy
  <2>3. CASE ClaimNothing(w) BY <2>3, Zenon DEF ClaimNothing, Busy
  <2>4. CASE \E group \in SUBSET live : PlanMerge(w, group)
    BY <2>4, Zenon DEF PlanMerge, Busy
  <2>5. CASE StopWork(w) \/ RenewFails(w)
    BY <2>5, Zenon DEF StopWork, RenewFails, Finish, Busy
  <2>6. CASE Renew(w) BY <2>6, Zenon DEF Renew, workVars, Busy
  <2>7. CASE \E x \in Txn : SendReplace(w, x) BY <2>7 DEF SendReplace, Busy
  <2>8. CASE Release(w) \/ ReleaseFails(w) BY <2>8, Zenon DEF Release, ReleaseFails, Busy
  <2>9. CASE Crash(w) BY <2>9, Zenon DEF Crash, Busy
  <2> QED BY <1>1, <2>1, <2>2, <2>3, <2>4, <2>5, <2>6, <2>7, <2>8, <2>9, Zenon DEF WorkerStep
<1>2. ASSUME NEW x \in Txn, TxnStep(x) PROVE Busy'
  <2>1. CASE Fence(x) BY <2>1, Zenon DEF Fence, workVars, Busy
  <2>2. CASE Answer(x) BY <2>2, Zenon DEF Answer, Busy
  <2> QED BY <1>2, <2>1, <2>2, Zenon DEF TxnStep, AnswerReplay, Abort, Vanish, Land
<1>3. CASE UNCHANGED <<wpc, plan, mine>> BY <1>3, Zenon DEF Busy
<1> QED BY <1>1, <1>2, <1>3, Zenon
        DEF Next, IngestAdd, DeleteKey, Tick, vars, workVars

\* A fenced transaction's tenancy is the latest.
LEMMA FencedIsLatest ==
    ASSUME TypeOK, Named, Fenced, NEW x \in Txn, tpc[x] = "fenced"
    PROVE  xten[x] = Len(tenancies)
<1>1. row # None /\ row.owner = tx[x].owner /\ row.gen = tx[x].gen
  BY Zenon DEF Fenced, Matches
<1>2. Len(tenancies) \in Tenancy /\ tenancies[Len(tenancies)].gen = tx[x].gen
  BY <1>1 DEF TypeOK, LeaseTypeOK, Named, RowNamed, Tenancy
<1>3. xten[x] \in Tenancy /\ tenancies[xten[x]].gen = tx[x].gen
  BY Zenon DEF Named, TxnNamed
<1> QED BY <1>2, <1>3, Zenon DEF Named, Distinct

\* What was lost to a tenancy stays lost to it.
LEMMA LostStays ==
    ASSUME NEW p, NEW n, LostTo(p, n),
           \A y \in Txn : tpc[y] = "landed" =>
              tpc'[y] = "landed" /\ tx'[y] = tx[y] /\ xten'[y] = xten[y]
    PROVE  LostTo(p, n)'
BY Zenon DEF LostTo

\* A merge loses inputs only to delete_key and to its own or later tenancies.
LEMMA LossesStep ==
    ASSUME TypeOK, Named, Fenced, Busy, Losses, [Next]_vars
    PROVE  Losses'
<1> USE DEF TypeOK
<1>1. \A y \in Txn : tpc[y] = "landed" =>
         tpc'[y] = "landed" /\ tx'[y] = tx[y] /\ xten'[y] = xten[y]
  <2>1. ASSUME NEW w \in Worker, NEW x \in Txn, SendReplace(w, x)
        PROVE  \A y \in Txn : y # x => tpc'[y] = tpc[y] /\ tx'[y] = tx[y] /\ xten'[y] = xten[y]
    BY <2>1, Zenon DEF SendReplace, TxnTypeOK
  <2>2. ASSUME NEW x \in Txn, TxnStep(x)
        PROVE  /\ tpc[x] # "landed"
               /\ \A y \in Txn : y # x => tpc'[y] = tpc[y] /\ tx'[y] = tx[y] /\ xten'[y] = xten[y]
    BY <2>2, Zenon DEF TxnStep, Fence, AnswerReplay, Abort, Vanish, Land, TxnTypeOK
  <2>3. \/ UNCHANGED txnVars
        \/ \E w \in Worker, x \in Txn : SendReplace(w, x)
        \/ \E x \in Txn : TxnStep(x)
    BY Zenon DEF Next, WorkerStep, DrawGeneration, Acquire, Reacquire, Granted, ClaimNothing,
           PlanMerge, StopWork, Renew, RenewFails, Release, ReleaseFails, Crash,
           IngestAdd, DeleteKey, Tick, vars
  <2>4. ASSUME NEW w \in Worker, NEW x \in Txn, SendReplace(w, x) PROVE tpc[x] = "none"
    BY <2>4, Zenon DEF SendReplace
  <2> QED BY <2>1, <2>2, <2>3, <2>4, Zenon DEF txnVars
<1>2. \A p, n : LostTo(p, n) => LostTo(p, n)'
  BY <1>1, LostStays, Zenon
<1>3. /\ Len(tenancies) \in Nat
      /\ \A w \in Worker : plan[w] # {} => wten[w] \in Nat /\ wten[w] <= Len(tenancies)
      /\ \A x \in Txn : tpc[x] # "none" => xten[x] \in Nat /\ xten[x] <= Len(tenancies)
  BY DEF LeaseTypeOK, Busy, Named, TokenNamed, TxnNamed, Tenancy, Working
<1>4. ASSUME NEW p \in live \cup erased, p \notin live' \cup erased',
             NEW n \in Nat, n <= Len(tenancies)
      PROVE  LostTo(p, n)'
  <2>1. ASSUME NEW x \in Txn, Land(x) PROVE LostTo(p, n)'
    <3>1. tpc[x] = "fenced" /\ tpc'[x] = "landed" /\ tx'[x] = tx[x] /\ xten'[x] = xten[x]
      BY <2>1, Zenon DEF Land, TxnTypeOK
    <3>2. p \in tx[x].old BY <1>4, <2>1, Zenon DEF Land
    <3>3. xten[x] = Len(tenancies) BY <3>1, FencedIsLatest, Zenon
    <3>4. xten'[x] >= n BY <1>3, <1>4, <3>1, <3>3, Zenon
    <3> QED BY <3>1, <3>2, <3>4, Zenon DEF LostTo
  <2>2. ASSUME NEW ps \in SUBSET live, NEW kept \in 0..1, DeleteKey(ps, kept)
        PROVE  FALSE
    BY <1>4, <2>2, Zenon DEF DeleteKey
  <2>3. CASE IngestAdd BY <1>4, <2>3, Zenon DEF IngestAdd
  <2>4. CASE UNCHANGED partVars
    <3>1. live' = live /\ erased' = erased BY <2>4, Zenon DEF partVars
    <3> QED BY <1>4, <3>1, Zenon
  <2>5. \/ UNCHANGED partVars \/ IngestAdd
        \/ \E x \in Txn : Land(x)
        \/ \E ps \in SUBSET live, kept \in 0..1 : DeleteKey(ps, kept)
    BY Zenon DEF Next, WorkerStep, DrawGeneration, Acquire, Reacquire, Granted, ClaimNothing,
           PlanMerge, StopWork, Renew, RenewFails, SendReplace, Release, ReleaseFails,
           Crash, TxnStep, Fence, AnswerReplay, Abort, Vanish, Tick, vars
  <2> QED BY <2>1, <2>2, <2>3, <2>4, <2>5, Zenon
<1>5. ASSUME NEW w \in Worker, NEW p \in plan'[w], p \notin live' \cup erased'
      PROVE  p \in plan[w] /\ wten'[w] = wten[w]
  <2>1. ASSUME NEW v \in Worker, WorkerStep(v)
        PROVE  p \in plan[w] /\ wten'[w] = wten[w]
    <3> USE <1>5 DEF WorkTypeOK
    <3>1. CASE DrawGeneration(v) BY <3>1, Zenon DEF DrawGeneration
    <3>2. CASE Acquire(v) \/ Reacquire(v)
      BY <3>2, Zenon DEF Acquire, Reacquire, Granted, Busy
    <3>3. CASE ClaimNothing(v) BY <3>3, Zenon DEF ClaimNothing
    <3>4. CASE \E group \in SUBSET live : PlanMerge(v, group)
      BY <3>4, ZenonT(30) DEF PlanMerge, partVars
    <3>5. CASE StopWork(v) \/ RenewFails(v) BY <3>5, Zenon DEF StopWork, RenewFails, Finish
    <3>6. CASE Renew(v) BY <3>6, Zenon DEF Renew, workVars
    <3>7. CASE \E x \in Txn : SendReplace(v, x) BY <3>7, Zenon DEF SendReplace
    <3>8. CASE Release(v) \/ ReleaseFails(v)
      BY <3>8, Zenon DEF Release, ReleaseFails, Forget, Busy
    <3>9. CASE Crash(v) BY <3>9, Zenon DEF Crash, Forget
    <3> QED BY <2>1, <3>1, <3>2, <3>3, <3>4, <3>5, <3>6, <3>7, <3>8, <3>9, Zenon DEF WorkerStep
  <2>2. ASSUME NEW x \in Txn, Answer(x) PROVE p \in plan[w] /\ wten'[w] = wten[w]
    BY <1>5, <2>2, Zenon DEF Answer, WorkTypeOK
  <2>3. CASE UNCHANGED <<plan, wten>> BY <1>5, <2>3, Zenon
  <2> QED BY <2>1, <2>2, <2>3, Zenon
          DEF Next, TxnStep, Fence, AnswerReplay, Abort, Vanish, Land, IngestAdd,
              DeleteKey, Tick, vars, workVars
<1>6. ASSUME NEW x \in Txn, tpc'[x] \in {"sent", "fenced"},
             NEW p \in tx'[x].old, p \notin live' \cup erased'
      PROVE  LostTo(p, xten[x])'
  <2>1. ASSUME tpc[x] \in {"sent", "fenced"}, tx'[x] = tx[x], xten'[x] = xten[x]
        PROVE  LostTo(p, xten[x])'
    <3>1. CASE p \in live \cup erased BY <1>3, <1>4, <1>6, <2>1, <3>1, Zenon
    <3>2. CASE p \notin live \cup erased
      <4>1. LostTo(p, xten[x]) BY <1>6, <2>1, <3>2, Zenon DEF Losses
      <4> QED BY <1>2, <2>1, <4>1, Zenon DEF LostTo
    <3> QED BY <3>1, <3>2, Zenon
  <2>2. ASSUME NEW w \in Worker, NEW y \in Txn, SendReplace(w, y)
        PROVE  LostTo(p, xten[x])'
    <3>1. CASE y # x
      BY <1>6, <2>1, <2>2, <3>1, Zenon DEF SendReplace, TxnTypeOK
    <3>2. CASE y = x
      <4>1. tx'[x].old = plan[w] /\ xten'[x] = wten[w] /\ partVars' = partVars
        BY <2>2, <3>2, Zenon DEF SendReplace, TxnTypeOK
      <4>2. LostTo(p, wten[w]) BY <1>6, <4>1, Zenon DEF Losses, partVars
      <4> QED BY <1>2, <4>1, <4>2, Zenon DEF LostTo
    <3> QED BY <3>1, <3>2, Zenon
  <2>3. ASSUME NEW y \in Txn, TxnStep(y) PROVE LostTo(p, xten[x])'
    <3>1. tpc[x] \in {"sent", "fenced"} /\ tx'[x] = tx[x] /\ xten'[x] = xten[x]
      BY <1>6, <2>3, Zenon DEF TxnStep, Fence, AnswerReplay, Abort, Vanish, Land, TxnTypeOK
    <3> QED BY <2>1, <3>1, Zenon
  <2>4. CASE UNCHANGED txnVars BY <1>6, <2>1, <2>4, Zenon DEF txnVars
  <2> QED BY <2>2, <2>3, <2>4, Zenon
          DEF Next, WorkerStep, DrawGeneration, Acquire, Reacquire, Granted, ClaimNothing,
              PlanMerge, StopWork, Renew, RenewFails, Release, ReleaseFails, Crash,
              IngestAdd, DeleteKey, Tick, vars
<1>7. ASSUME NEW w \in Worker, NEW p \in plan'[w], p \notin live' \cup erased'
      PROVE  LostTo(p, wten[w])'
  <2>1. p \in plan[w] /\ wten'[w] = wten[w] BY <1>5, <1>7, Zenon
  <2>2. CASE p \in live \cup erased
    <3>1. wten[w] \in Nat /\ wten[w] <= Len(tenancies) BY <1>3, <2>1, Zenon
    <3> QED BY <1>4, <1>7, <2>1, <2>2, <3>1, Zenon
  <2>3. CASE p \notin live \cup erased
    <3>1. LostTo(p, wten[w]) BY <2>1, <2>3, Zenon DEF Losses
    <3> QED BY <1>2, <2>1, <3>1, Zenon DEF LostTo
  <2> QED BY <2>2, <2>3, Zenon
<1> QED BY <1>6, <1>7, Zenon DEF Losses

Discipline == TypeOK /\ Named /\ Fenced /\ Busy /\ Losses

\* The inductive invariant of the lease.
THEOREM LeaseDiscipline == Spec => []Discipline
<1>1. Init => Discipline
  <2> SUFFICES ASSUME Init PROVE Discipline BY Zenon
  <2> USE LeaseAssumption DEF Init
  <2>1. TypeOK
    BY DEF TypeOK, LeaseTypeOK, PartTypeOK, WorkTypeOK, TxnTypeOK, NoDraw, NoReplace
  <2>2. Tenancy = {} BY DEF Tenancy
  <2>3. Named
    BY <2>2, Zenon DEF Named, Distinct, Draws, RowNamed, TokenNamed, TxnNamed, Working
  <2>4. Fenced /\ Busy /\ Losses BY Zenon DEF Fenced, Busy, Losses
  <2> QED BY <2>1, <2>3, <2>4, Zenon DEF Discipline
<1>2. Discipline /\ [Next]_vars => Discipline'
  BY TypeStep, NamedStep, FencedStep, BusyStep, LossesStep, Zenon DEF Discipline
<1> QED BY <1>1, <1>2, PTL DEF Spec

\* A token that compares equal to the row was handed out in its current tenancy.
THEOREM TokensPowerless == Spec => []StaleTokenPowerless
<1>1. Discipline => StaleTokenPowerless
  <2> SUFFICES ASSUME Discipline PROVE StaleTokenPowerless BY Zenon
  <2>1. ASSUME row # None
        PROVE  /\ Len(tenancies) \in Tenancy
               /\ tenancies[Len(tenancies)].gen = row.gen
    BY <2>1 DEF Discipline, TypeOK, LeaseTypeOK, Named, RowNamed, Tenancy
  <2>2. ASSUME NEW w \in Worker, tok[w] # 0, Matches(w, tok[w])
        PROVE  wten[w] = Len(tenancies)
    BY <2>1, <2>2 DEF Discipline, Named, TokenNamed, Distinct, Matches
  <2>3. ASSUME NEW x \in Txn, tpc[x] \in {"sent", "fenced"}, Matches(tx[x].owner, tx[x].gen)
        PROVE  xten[x] = Len(tenancies)
    BY <2>1, <2>3 DEF Discipline, Named, TxnNamed, Distinct, Matches
  <2> QED BY <2>2, <2>3, Zenon DEF StaleTokenPowerless
<1> QED BY <1>1, LeaseDiscipline, PTL

\* A REPLACE lands only in the tenancy its merge was planned under.
THEOREM FencedLanding == Spec => LandsInItsTenancy
<1>1. Discipline /\ [Next]_vars =>
         [\A x \in Txn : tpc[x] # "landed" /\ tpc'[x] = "landed"
             => xten[x] = Len(tenancies)]_vars
  <2> SUFFICES ASSUME Discipline, [Next]_vars, NEW x \in Txn,
                      tpc[x] # "landed", tpc'[x] = "landed"
               PROVE  xten[x] = Len(tenancies)
    BY Zenon
  <2>1. tpc[x] = "fenced"
    <3>1. ASSUME NEW w \in Worker, NEW y \in Txn, SendReplace(w, y) PROVE FALSE
      BY <3>1, Zenon DEF SendReplace, Discipline, TypeOK, TxnTypeOK
    <3>2. ASSUME NEW y \in Txn, TxnStep(y) PROVE tpc[x] = "fenced"
      BY <3>2, Zenon DEF TxnStep, Fence, AnswerReplay, Abort, Vanish, Land,
                  Discipline, TypeOK, TxnTypeOK
    <3>3. tpc' # tpc BY Zenon
    <3> QED
      BY <3>1, <3>2, <3>3, Zenon
      DEF Next, WorkerStep, DrawGeneration, Acquire, Reacquire, Granted, ClaimNothing,
          PlanMerge, StopWork, Renew, RenewFails, Release, ReleaseFails, Crash,
          IngestAdd, DeleteKey, Tick, vars, txnVars
  <2> QED BY <2>1, FencedIsLatest, Zenon DEF Discipline
<1> QED BY <1>1, LeaseDiscipline, PTL DEF Spec, LandsInItsTenancy

\* An input a fenced REPLACE finds gone went to delete_key or to its own tenancy.
THEOREM ConflictsUnleased == Spec => []ConflictOnlyUnleased
<1>1. Discipline => ConflictOnlyUnleased
  <2> SUFFICES ASSUME Discipline, NEW x \in Txn, tpc[x] = "fenced",
                      NEW p \in tx[x].old \ (live \cup erased)
               PROVE  \E y \in Txn : /\ tpc[y] = "landed" /\ p \in tx[y].old
                                     /\ xten[y] = xten[x]
    BY Zenon DEF ConflictOnlyUnleased
  <2>1. PICK y \in Txn : tpc[y] = "landed" /\ p \in tx[y].old /\ xten[y] >= xten[x]
    BY Zenon DEF Discipline, Losses, LostTo
  <2>2. xten[x] = Len(tenancies) BY FencedIsLatest, Zenon DEF Discipline
  <2>3. Len(tenancies) \in Nat /\ xten[y] \in Tenancy
    BY <2>1 DEF Discipline, TypeOK, LeaseTypeOK, Named, TxnNamed
  <2>4. xten[y] = xten[x] BY <2>1, <2>2, <2>3 DEF Tenancy
  <2> QED BY <2>1, <2>4, Zenon
<1> QED BY <1>1, LeaseDiscipline, PTL
=============================================================================
