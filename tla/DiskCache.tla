----------------------------- MODULE DiskCache -----------------------------
(***************************************************************************)
(* The local disk cache in front of the object store (ukiel-query          *)
(* cache.rs and cache/disk.rs): concurrent reads, write-through puts and   *)
(* prewarming multipart uploads that share one directory, one byte budget  *)
(* and one entry budget.                                                   *)
(*                                                                         *)
(* One `cache` value holds what the state mutex guards together with the   *)
(* files it describes: the LRU index (most recent first), the pending      *)
(* fills, the two byte counters, the published files and the staging       *)
(* files.  A step of this module is one critical section, one blocking job *)
(* or one answer of the backing store.  I/O failures, files that disappear *)
(* and process crashes draw on one budget, MaxFault.                       *)
(***************************************************************************)
EXTENDS Integers, Sequences, FiniteSets, SequencesExt

CONSTANTS
  Task,       \* concurrent calls on the store
  Object,     \* object paths; an object's bytes never change
  SizeOf,     \* Object -> Nat
  Ranges,     \* the byte ranges <<lo, hi>> asked for; <<>> asks for the whole
  PartSize,   \* bytes in a part of a multipart upload
  ChunkSize, Threshold, MaxEntries, SizeEntries,  \* CacheConfig
  Budgets,    \* the values max_bytes takes from one start to the next
  Usize,      \* the modulus of the reader count (2^64 in the code)
  MaxFault    \* bound: faults of the environment

ASSUME DiskCacheAssumption ==
  /\ SizeOf \in [Object -> Nat \ {0}]
  /\ {PartSize, ChunkSize, MaxEntries, SizeEntries} \subseteq Nat \ {0}
  /\ Threshold \in Nat /\ MaxFault \in Nat
  /\ Budgets \subseteq Nat \ {0} /\ Budgets # {}
  /\ Usize > Cardinality(Task)

VARIABLES
  cache,    \* the directory and the guarded State
  enabled,  \* the store has a DiskCache (with_config got one)
  limit,    \* max_bytes of this run of the process
  sizes,    \* the LRU of memoized object sizes
  backing,  \* objects in the backing store
  task,     \* where each call stands
  torn,     \* names whose entry a failed read dropped while it was leased
  leaked,   \* names whose staging file could not be removed
  faults

vars == <<cache, enabled, limit, sizes, backing, task, torn, leaked, faults>>

Bytes(o) == [i \in 1..SizeOf[o] |-> <<o, i>>]
Whole(o) == <<o, 0>>
Chunk(o, i) == <<o, i + 1>>
Chunks(o) == {Chunk(o, i) : i \in 0..((SizeOf[o] - 1) \div ChunkSize)}
Name == UNION {{Whole(o)} \cup Chunks(o) : o \in Object}

Idle == [pc |-> "idle", op |-> "get", obj |-> CHOOSE o \in Object : TRUE,
         range |-> <<>>, idx |-> 0, out |-> <<>>, name |-> <<>>, buf |-> <<>>,
         live |-> TRUE, issued |-> 0, writing |-> {}, tee |-> FALSE,
         poisoned |-> FALSE]

NoFiles == [n \in {} |-> <<>>]
Closed == [entries |-> <<>>, pending |-> NoFiles, resident |-> 0,
           reserved |-> 0, files |-> NoFiles, temps |-> NoFiles]

Init ==
  /\ cache = Closed
  /\ enabled = FALSE
  /\ limit \in Budgets
  /\ sizes = <<>>
  /\ backing \in SUBSET Object
  /\ task = [t \in Task |-> [Idle EXCEPT !.pc = "down"]]
  /\ torn = {}
  /\ leaked = {}
  /\ faults = 0

-----------------------------------------------------------------------------
(* Functions with a changing domain, and the index.                        *)
With(f, n, v) == [x \in DOMAIN f \cup {n} |-> IF x = n THEN v ELSE f[x]]
Without(f, n) == [x \in DOMAIN f \ {n} |-> f[x]]

Indexed(c, n) == \E i \in DOMAIN c.entries : c.entries[i].name = n
EntryOf(c, n) == CHOOSE e \in ToSet(c.entries) : e.name = n
Pop(c, n) == [c EXCEPT !.entries = SelectSeq(@, LAMBDA e : e.name # n),
                       !.resident = @ - EntryOf(c, n).bytes]
Insert(c, n, b) ==
  [c EXCEPT !.entries = <<[name |-> n, bytes |-> b, readers |-> 0]>> \o @,
            !.resident = @ + b]

(***************************************************************************)
(* make_room: evict unpinned entries, least recently used first, until     *)
(* the bytes and the entry fit.  The loop stops at the first file it       *)
(* cannot unlink, and what it evicted before stays evicted.                *)
(***************************************************************************)
Victims(c) == SelectSeq(Reverse(c.entries), LAMBDA e : e.readers = 0)

Evict(c, k) ==
  LET gone == {Victims(c)[i].name : i \in 1..k}
      bytes == FoldLeft(LAMBDA acc, e : acc + e.bytes, 0, SubSeq(Victims(c), 1, k))
  IN [c EXCEPT !.entries = SelectSeq(@, LAMBDA e : e.name \notin gone),
               !.resident = @ - bytes,
               !.files = [n \in DOMAIN @ \ gone |-> @[n]]]

(* Faulty variant: temporary fills are not counted. *)
FitsUncounted(c, max, bytes, slots) ==
  /\ bytes <= IF c.resident > max THEN 0 ELSE max - c.resident
  /\ Len(c.entries) + Cardinality(DOMAIN c.pending) + slots <= MaxEntries

Fits(c, max, bytes, slots) ==
  /\ bytes <= IF c.resident + c.reserved > max THEN 0
              ELSE max - (c.resident + c.reserved)
  /\ Len(c.entries) + Cardinality(DOMAIN c.pending) + slots <= MaxEntries

Room(c, ok, fault) == [cache |-> c, ok |-> ok, fault |-> fault]

MakeRoom(c, max, bytes, slots) ==
  IF bytes > max THEN {Room(c, FALSE, 0)}
  ELSE LET n == Len(Victims(c))
           enough == {k \in 0..n : Fits(Evict(c, k), max, bytes, slots)}
           stop == IF enough = {} THEN n ELSE Min(enough)
       IN {Room(Evict(c, stop), enough # {}, 0)}
            \cup {Room(Evict(c, k), FALSE, 1) : k \in 0..(stop - 1)}

-----------------------------------------------------------------------------
(***************************************************************************)
(* read: a hit moves the entry to the front and counts one more reader.    *)
(* An entry whose file is gone is dropped with its charge: a miss.         *)
(***************************************************************************)
Hit(c, n) == Indexed(c, n) /\ n \in DOMAIN c.files

Pin(c, n) ==
  [c EXCEPT !.entries =
     <<[EntryOf(c, n) EXCEPT !.readers = (@ + 1) % Usize]>>
       \o SelectSeq(@, LAMBDA e : e.name # n)]

Missed(c, n) == IF Indexed(c, n) THEN Pop(c, n) ELSE c

Leases(n) == {t \in Task : task[t].pc \in {"stream", "pinned"} /\ task[t].name = n}

(* The drop of a ReadLease decrements whatever entry the path has now. *)
Unpin(c, n) ==
  [c EXCEPT !.entries = [i \in DOMAIN @ |->
     IF @[i].name = n THEN [@[i] EXCEPT !.readers = (@ - 1) % Usize] ELSE @[i]]]

(***************************************************************************)
(* reserve: one fill per name, and only for a name that is not published.  *)
(* The staging file is created, then the bytes are charged.                *)
(***************************************************************************)
Charge(c, n, b) == [c EXCEPT !.pending = With(@, n, b),
                             !.reserved = @ + b,
                             !.temps = With(@, n, <<>>)]

Reserve(c, n, b) ==
  IF Indexed(c, n) \/ n \in DOMAIN c.pending THEN {Room(c, FALSE, 0)}
  ELSE UNION {IF ~r.ok THEN {r}
              ELSE {Room(Charge(r.cache, n, b), TRUE, 0), Room(r.cache, FALSE, 1)}
              : r \in MakeRoom(c, limit, b, 1)}

(***************************************************************************)
(* The drop of an unpublished Fill: unlink the staging file, then release  *)
(* the charge.  If the unlink fails the charge and the name stay taken.    *)
(***************************************************************************)
Refund(c, n) == [c EXCEPT !.pending = Without(@, n),
                          !.reserved = @ - c.pending[n],
                          !.temps = Without(@, n)]

Dropped(c, n) == {Room(Refund(c, n), TRUE, 0), Room(c, FALSE, 1)}

(***************************************************************************)
(* publish: only a staging file of exactly the reserved length is renamed, *)
(* and its charge moves from reserved to resident.  A failed write, length *)
(* check or rename drops the fill.                                         *)
(***************************************************************************)
Complete(c, n) == Len(c.temps[n]) = c.pending[n]

Published(c, n) ==
  Insert([Refund(c, n) EXCEPT !.files = With(@, n, c.temps[n])], n, c.pending[n])

Publish(c, n) ==
  (IF Complete(c, n) THEN {Room(Published(c, n), TRUE, 0)} ELSE Dropped(c, n))
    \cup {Room(r.cache, r.ok, r.fault + 1) : r \in Dropped(c, n)}

-----------------------------------------------------------------------------
(* Every step that changes the cache goes through Settle, which draws on   *)
(* the fault budget and notes a staging file that stays behind.            *)
Settle(r, n) ==
  /\ faults + r.fault <= MaxFault
  /\ faults' = faults + r.fault
  /\ cache' = r.cache
  /\ leaked' = IF ~r.ok /\ n \in DOMAIN r.cache.temps THEN leaked \cup {n} ELSE leaked

Set(t, rec) == task' = [task EXCEPT ![t] = rec]
Answer(t, out) == [Idle EXCEPT !.pc = "done", !.obj = task[t].obj,
                               !.range = task[t].range, !.out = out]

Lo(k) == IF k.range = <<>> THEN 0 ELSE k.range[1]
Hi(k) == IF k.range = <<>> THEN SizeOf[k.obj] ELSE k.range[2]
Slice(s, lo, hi) == SubSeq(s, lo + 1, hi)

(***************************************************************************)
(* get_opts: look for the whole file, else go on to learn the size.        *)
(***************************************************************************)
GetOpts(t, o, r) ==
  /\ task[t].pc \in {"idle", "done"}
  /\ r # <<>> => r[2] <= SizeOf[o]
  /\ LET k == [Idle EXCEPT !.obj = o, !.range = r, !.name = Whole(o)]
         n == Whole(o)
     IN IF ~enabled
        THEN Set(t, [k EXCEPT !.pc = "pass"]) /\ UNCHANGED <<cache, torn>>
        ELSE IF Hit(cache, n)
        THEN /\ cache' = Pin(cache, n)
             /\ Set(t, [k EXCEPT !.pc = "stream", !.buf = cache.files[n]])
             /\ UNCHANGED torn
        ELSE /\ cache' = Missed(cache, n)
             /\ torn' = IF Indexed(cache, n) /\ Leases(n) # {} THEN torn \cup {n} ELSE torn
             /\ Set(t, [k EXCEPT !.pc = "size"])
  /\ UNCHANGED <<enabled, limit, sizes, backing, leaked, faults>>

(* A cached whole file streams from its open descriptor, then unpins. *)
Stream(t) ==
  /\ task[t].pc = "stream"
  /\ cache' = Unpin(cache, task[t].name)
  /\ Set(t, Answer(t, Slice(task[t].buf, Lo(task[t]), Hi(task[t]))))
  /\ UNCHANGED <<enabled, limit, sizes, backing, torn, leaked, faults>>

(***************************************************************************)
(* object_size, then the choice by size: a small object is fetched whole   *)
(* into a reservation, a large one is read chunk by chunk when a range was *)
(* asked, and everything that cannot be admitted bypasses the cache.       *)
(***************************************************************************)
Memoize(o) == SubSeq(<<o>> \o SelectSeq(sizes, LAMBDA x : x # o), 1,
                     IF o \in ToSet(sizes) THEN Len(sizes)
                     ELSE IF Len(sizes) < SizeEntries THEN Len(sizes) + 1
                     ELSE SizeEntries)

Size(t) ==
  LET o == task[t].obj
      small == SizeOf[o] <= Threshold
  IN /\ task[t].pc = "size"
     /\ UNCHANGED <<enabled, limit, backing, torn>>
     /\ IF o \notin ToSet(sizes) /\ o \notin backing
        THEN Set(t, Idle) /\ UNCHANGED <<cache, sizes, leaked, faults>>
        ELSE /\ sizes' = Memoize(o)
             /\ \/ /\ small
                   /\ \E r \in Reserve(cache, Whole(o), SizeOf[o]) :
                        /\ Settle(r, <<>>)
                        /\ Set(t, [task[t] EXCEPT !.pc = IF r.ok THEN "fetch" ELSE "pass"])
                \/ /\ ~small
                   /\ Set(t, [task[t] EXCEPT
                        !.pc = IF task[t].range = <<>> THEN "pass" ELSE "chunk",
                        !.idx = Lo(task[t]) \div ChunkSize])
                   /\ UNCHANGED <<cache, leaked, faults>>

(* A bypassing read takes exactly what was asked from the backing store. *)
Pass(t) ==
  /\ task[t].pc = "pass"
  /\ Set(t, IF task[t].obj \in backing
            THEN Answer(t, Slice(Bytes(task[t].obj), Lo(task[t]), Hi(task[t])))
            ELSE Idle)
  /\ UNCHANGED <<cache, enabled, limit, sizes, backing, torn, leaked, faults>>

-----------------------------------------------------------------------------
(* read_range_chunked: one iteration of the loop per chunk of the range.   *)
Start(k) == k.idx * ChunkSize
End(k) == IF Start(k) + ChunkSize < SizeOf[k.obj] THEN Start(k) + ChunkSize
          ELSE SizeOf[k.obj]
From(k) == IF Lo(k) > Start(k) THEN Lo(k) ELSE Start(k)
To(k) == IF Hi(k) < End(k) THEN Hi(k) ELSE End(k)

Continue(t, bytes) ==
  LET k == task[t]
      out == k.out \o bytes
  IN IF ~k.live THEN Idle
     ELSE IF k.idx = (Hi(k) - 1) \div ChunkSize THEN Answer(t, out)
     ELSE [k EXCEPT !.pc = "chunk", !.idx = @ + 1, !.out = out,
                    !.name = <<>>, !.buf = <<>>]

ReadChunk(t) ==
  LET k == task[t]
      n == Chunk(k.obj, k.idx)
  IN /\ k.pc = "chunk"
     /\ \/ /\ Hit(cache, n)
           /\ cache' = Pin(cache, n)
           /\ Set(t, [k EXCEPT !.pc = "pinned", !.name = n, !.buf = cache.files[n]])
           /\ UNCHANGED <<torn, leaked, faults>>
        \/ /\ ~Hit(cache, n)
           /\ torn' = IF Indexed(cache, n) /\ Leases(n) # {} THEN torn \cup {n} ELSE torn
           /\ \E r \in Reserve(Missed(cache, n), n, End(k) - Start(k)) :
                /\ Settle(r, <<>>)
                /\ Set(t, [k EXCEPT !.pc = IF r.ok THEN "fetch" ELSE "bypass", !.name = n])
     /\ UNCHANGED <<enabled, limit, sizes, backing>>

(* The blocking read of a pinned chunk; if it fails the chunk is a miss,    *)
(* and the entry that is still there refuses a second fill.                *)
ReadPinned(t) ==
  LET k == task[t]
      c == Unpin(cache, k.name)
  IN /\ k.pc = "pinned"
     /\ \/ /\ cache' = c
           /\ Set(t, Continue(t, Slice(k.buf, From(k) - Start(k), To(k) - Start(k))))
           /\ UNCHANGED <<leaked, faults>>
        \/ /\ k.live
           /\ \E r \in Reserve(c, k.name, End(k) - Start(k)) :
                /\ Settle([r EXCEPT !.fault = @ + 1], <<>>)
                /\ Set(t, [k EXCEPT !.pc = IF r.ok THEN "fetch" ELSE "bypass", !.buf = <<>>])
     /\ UNCHANGED <<enabled, limit, sizes, backing, torn>>

Bypass(t) ==
  LET k == task[t]
  IN /\ k.pc = "bypass"
     /\ Set(t, IF k.obj \in backing
               THEN Continue(t, Slice(Bytes(k.obj), From(k), To(k))) ELSE Idle)
     /\ UNCHANGED <<cache, enabled, limit, sizes, backing, torn, leaked, faults>>

(***************************************************************************)
(* A fill in hand: fetch its bytes, then write and publish them in one     *)
(* blocking job that a cancelled caller leaves running.  The answer does   *)
(* not depend on how the job ends.                                         *)
(***************************************************************************)
Span(k) == IF k.name = Whole(k.obj) THEN Bytes(k.obj)
           ELSE Slice(Bytes(k.obj), Start(k), End(k))

Fetch(t) ==
  LET k == task[t]
  IN /\ k.pc = "fetch"
     /\ \/ /\ k.obj \in backing
           /\ Set(t, [k EXCEPT !.pc = "save", !.buf = Span(k)])
           /\ UNCHANGED <<cache, leaked, faults>>
        \/ /\ k.obj \notin backing
           /\ \E r \in Dropped(cache, k.name) : Settle(r, k.name)
           /\ Set(t, Idle)
     /\ UNCHANGED <<enabled, limit, sizes, backing, torn>>

Saved(t) ==
  LET k == task[t]
  IN IF k.op # "get" \/ ~k.live THEN Idle
     ELSE IF k.name = Whole(k.obj) THEN Answer(t, Slice(k.buf, Lo(k), Hi(k)))
     ELSE Continue(t, Slice(k.buf, From(k) - Start(k), To(k) - Start(k)))

Save(t) ==
  LET k == task[t]
      c == IF k.op = "upload" THEN cache
           ELSE [cache EXCEPT !.temps[k.name] = k.buf]
  IN /\ k.pc = "save"
     /\ \E r \in Publish(c, k.name) : Settle(r, k.name)
     /\ Set(t, Saved(t))
     /\ UNCHANGED <<enabled, limit, sizes, backing, torn>>

-----------------------------------------------------------------------------
(* put_opts: store the object, then prewarm the cache with its bytes.      *)
Fresh(o) ==
  o \notin backing /\ \A u \in Task : task[u].op = "upload" => task[u].obj # o

Put(t, o) ==
  /\ task[t].pc \in {"idle", "done"} /\ Fresh(o)
  /\ backing' = backing \cup {o}
  /\ IF ~enabled
     THEN Set(t, Idle) /\ UNCHANGED <<cache, leaked, faults>>
     ELSE \E r \in Reserve(cache, Whole(o), SizeOf[o]) :
            /\ Settle(r, <<>>)
            /\ Set(t, IF r.ok THEN [Idle EXCEPT !.pc = "save", !.op = "put", !.obj = o,
                                               !.name = Whole(o), !.buf = Bytes(o)]
                      ELSE Idle)
  /\ UNCHANGED <<enabled, limit, sizes, torn>>

(***************************************************************************)
(* A prewarming upload.  Each part grows the reservation when it is issued *)
(* and is written at its offset by a job of its own, in any order.  The    *)
(* fill lives as long as the upload or a job holds the tee.                *)
(***************************************************************************)
Parts(o) == (SizeOf[o] + PartSize - 1) \div PartSize
PartStart(k) == (k - 1) * PartSize
PartEnd(o, k) == IF k * PartSize < SizeOf[o] THEN k * PartSize ELSE SizeOf[o]

PutMultipart(t, o) ==
  /\ task[t].pc \in {"idle", "done"} /\ Fresh(o) /\ enabled
  /\ \E r \in Reserve(cache, Whole(o), 0) :
       /\ Settle(r, <<>>)
       /\ Set(t, [Idle EXCEPT !.pc = "upload", !.op = "upload", !.obj = o,
                              !.name = Whole(o), !.tee = r.ok])
  /\ UNCHANGED <<enabled, limit, sizes, backing, torn>>

(* The fill goes with the last holder of the tee. *)
Release(c, k) ==
  IF k.tee \/ k.writing # {} THEN {Room(c, TRUE, 0)} ELSE Dropped(c, k.name)

Grow(c, n, b) ==
  {IF r.ok THEN Room([r.cache EXCEPT !.pending[n] = @ + b, !.reserved = @ + b], TRUE, r.fault)
   ELSE r : r \in MakeRoom(c, limit, b, 0)}

PutPart(t) ==
  LET k == task[t]
      p == k.issued + 1
      sent == [k EXCEPT !.issued = p]
      refused == [sent EXCEPT !.tee = FALSE, !.poisoned = TRUE]
  IN /\ k.pc = "upload" /\ k.issued < Parts(k.obj)
     /\ \/ /\ ~k.tee
           /\ Set(t, sent)
           /\ UNCHANGED <<cache, leaked, faults>>
        \/ /\ k.tee
           /\ \E r \in Grow(cache, k.name, PartEnd(k.obj, p) - PartStart(p)) :
                \/ /\ r.ok
                   /\ Settle(r, <<>>)
                   /\ Set(t, [sent EXCEPT !.writing = @ \cup {p}])
                \/ /\ ~r.ok
                   /\ \E d \in Release(r.cache, refused) :
                        Settle([d EXCEPT !.fault = @ + r.fault], k.name)
                   /\ Set(t, refused)
     /\ UNCHANGED <<enabled, limit, sizes, backing, torn>>

WriteAt(content, lo, bytes) ==
  LET top == IF Len(content) > lo + Len(bytes) THEN Len(content) ELSE lo + Len(bytes)
  IN [i \in 1..top |-> IF i \in (lo + 1)..(lo + Len(bytes)) THEN bytes[i - lo]
                       ELSE IF i <= Len(content) THEN content[i] ELSE <<>>]

(* Faulty variant: a failed part write does not poison the tee. *)
PoisonedIfRefused(k, failed) == k.poisoned

Poisoned(k, failed) == k.poisoned \/ failed

WritePart(t, p) ==
  LET k == task[t]
      part == Slice(Bytes(k.obj), PartStart(p), PartEnd(k.obj, p))
      over == PartEnd(k.obj, p) > cache.pending[k.name]
      after == [k EXCEPT !.writing = @ \ {p}]
  IN /\ k.op = "upload" /\ p \in k.writing
     /\ \E bad \in {0, 1} :
          LET failed == ~k.poisoned /\ (over \/ bad = 1)
              c == IF k.poisoned \/ failed THEN cache
                   ELSE [cache EXCEPT !.temps[k.name] = WriteAt(@, PartStart(p), part)]
          IN /\ k.poisoned => bad = 0
             /\ \E d \in Release(c, after) : Settle([d EXCEPT !.fault = @ + bad], k.name)
             /\ Set(t, IF k.pc = "gone" /\ after.writing = {} THEN Idle
                       ELSE [after EXCEPT !.poisoned = Poisoned(k, failed)])
     /\ UNCHANGED <<enabled, limit, sizes, backing, torn>>

(* complete: once the store has the object, a clean tee is published. *)
CompleteUpload(t) ==
  LET k == task[t]
  IN /\ k.pc = "upload" /\ k.issued = Parts(k.obj) /\ k.writing = {}
     /\ backing' = backing \cup {k.obj}
     /\ \/ /\ k.tee /\ ~k.poisoned
           /\ Set(t, [k EXCEPT !.pc = "save", !.tee = FALSE])
           /\ UNCHANGED <<cache, leaked, faults>>
        \/ /\ k.tee /\ k.poisoned
           /\ \E d \in Dropped(cache, k.name) : Settle(d, k.name)
           /\ Set(t, Idle)
        \/ /\ ~k.tee
           /\ Set(t, Idle)
           /\ UNCHANGED <<cache, leaked, faults>>
     /\ UNCHANGED <<enabled, limit, sizes, torn>>

-----------------------------------------------------------------------------
(***************************************************************************)
(* Cancellation.  Dropping a call drops the fill or lease it holds, except *)
(* what a blocking job has taken over: a save and a pinned range read run  *)
(* to their end, and so do the part writes of an upload.                   *)
(***************************************************************************)
Cancel(t) ==
  LET k == task[t]
      gone == [k EXCEPT !.pc = "gone", !.tee = FALSE]
  IN /\ \/ /\ k.pc \in {"size", "pass", "chunk", "bypass"}
           /\ Set(t, Idle)
           /\ UNCHANGED <<cache, leaked, faults>>
        \/ /\ k.pc = "stream"
           /\ cache' = Unpin(cache, k.name)
           /\ Set(t, Idle)
           /\ UNCHANGED <<leaked, faults>>
        \/ /\ k.pc = "fetch"
           /\ \E d \in Dropped(cache, k.name) : Settle(d, k.name)
           /\ Set(t, Idle)
        \/ /\ k.pc \in {"save", "pinned"} /\ k.live
           /\ Set(t, [k EXCEPT !.live = FALSE])
           /\ UNCHANGED <<cache, leaked, faults>>
        \/ /\ k.pc = "upload"
           /\ IF k.tee THEN \E d \in Release(cache, gone) : Settle(d, k.name)
              ELSE UNCHANGED <<cache, leaked, faults>>
           /\ Set(t, IF k.writing = {} THEN Idle ELSE gone)
     /\ UNCHANGED <<enabled, limit, sizes, backing, torn>>

(* delete_stream: the garbage collector deletes the object, not its copies. *)
Delete(o) ==
  /\ o \in backing
  /\ backing' = backing \ {o}
  /\ UNCHANGED <<cache, enabled, limit, sizes, task, torn, leaked, faults>>

(* A published file disappears from the directory. *)
Vanish(n) ==
  /\ n \in DOMAIN cache.files
  /\ faults < MaxFault
  /\ faults' = faults + 1
  /\ cache' = [cache EXCEPT !.files = Without(@, n)]
  /\ UNCHANGED <<enabled, limit, sizes, backing, task, torn, leaked>>

(* The process dies: the index, the calls and their descriptors are gone,   *)
(* the files and the staging files stay.                                   *)
Crash ==
  /\ \A t \in Task : task[t].pc # "down"
  /\ faults < MaxFault
  /\ faults' = faults + 1
  /\ cache' = [Closed EXCEPT !.files = cache.files, !.temps = cache.temps]
  /\ enabled' = FALSE
  /\ sizes' = <<>>
  /\ task' = [t \in Task |-> [Idle EXCEPT !.pc = "down"]]
  /\ torn' = {} /\ leaked' = {}
  /\ UNCHANGED <<limit, backing>>

(***************************************************************************)
(* open: index the files in directory order, evicting to the new budget,   *)
(* and remove staging files.  If the directory cannot be used or trimmed   *)
(* the store runs without a cache.                                         *)
(***************************************************************************)
Reindex(c, n, max) ==
  LET b == Len(c.files[n])
  IN IF b > max THEN [c EXCEPT !.files = Without(@, n)]
     ELSE Insert((CHOOSE r \in MakeRoom(c, max, b, 1) : r.fault = 0).cache, n, b)

Open ==
  /\ \A t \in Task : task[t].pc = "down"
  /\ task' = [t \in Task |-> Idle]
  /\ limit' \in Budgets
  /\ \/ \E order \in SetToSeqs(DOMAIN cache.files) :
          /\ enabled' = TRUE
          /\ cache' = FoldLeft(LAMBDA c, n : Reindex(c, n, limit'),
                               [cache EXCEPT !.temps = NoFiles], order)
          /\ UNCHANGED faults
     \/ \E kept \in SUBSET DOMAIN cache.files :
          /\ faults < MaxFault
          /\ faults' = faults + 1
          /\ cache' = [cache EXCEPT !.files = [n \in kept |-> @[n]]]
          /\ UNCHANGED enabled
  /\ UNCHANGED <<sizes, backing, torn, leaked>>

-----------------------------------------------------------------------------
TaskStep(t) ==
  \/ Stream(t) \/ Size(t) \/ Pass(t) \/ ReadChunk(t) \/ ReadPinned(t)
  \/ Bypass(t) \/ Fetch(t) \/ Save(t) \/ PutPart(t) \/ CompleteUpload(t)
  \/ \E p \in 1..Parts(task[t].obj) : WritePart(t, p)

Next ==
  \/ \E t \in Task :
       \/ TaskStep(t)
       \/ Cancel(t)
       \/ \E o \in Object : Put(t, o) \/ PutMultipart(t, o)
                            \/ \E r \in Ranges : GetOpts(t, o, r)
  \/ \E o \in Object : Delete(o)
  \/ \E n \in DOMAIN cache.files : Vanish(n)
  \/ Crash
  \/ Open

Spec == Init /\ [][Next]_vars

-----------------------------------------------------------------------------
Total(S, Weight(_)) == FoldLeft(LAMBDA acc, x : acc + Weight(x), 0, SetToSeq(S))
Filling(t) ==
  \/ task[t].pc \in {"fetch", "save"}
  \/ task[t].op = "upload" /\ (task[t].tee \/ task[t].writing # {})

TypeOK ==
  /\ \A e \in ToSet(cache.entries) :
       e.name \in Name /\ e.bytes \in Nat /\ e.readers \in 0..(Usize - 1)
  /\ IsInjective([i \in DOMAIN cache.entries |-> cache.entries[i].name])
  /\ {cache.resident, cache.reserved} \subseteq Nat
  /\ DOMAIN cache.pending \cup DOMAIN cache.files \cup DOMAIN cache.temps \subseteq Name
  /\ enabled \in BOOLEAN /\ limit \in Budgets
  /\ ToSet(sizes) \subseteq Object /\ Len(sizes) <= SizeEntries
  /\ backing \subseteq Object
  /\ \A t \in Task : task[t].pc \in {"down", "idle", "done", "stream", "size", "pass",
                                    "chunk", "pinned", "bypass", "fetch", "save",
                                    "upload", "gone"}
  /\ faults \in 0..MaxFault

(* One budget for published files, pinned reads and temporary fills         *)
(* (disk.rs:1): the counters say exactly what the index and the fills add  *)
(* up to, the entry cap counts both, and no file of the directory is        *)
(* outside them, so the bytes on disk never exceed max_bytes.  A fill that *)
(* is fetched, written, cancelled or refused gives its name and its bytes  *)
(* back: only one somebody holds, or whose staging file could not be       *)
(* removed, stays charged (the drop of Fill).  What may be evicted to make *)
(* room is exact too: readers counts the leases of a file, for every entry *)
(* that was not dropped under its readers because its file disappeared.    *)
BudgetHeld ==
  /\ TypeOK
  /\ \A e \in ToSet(cache.entries) :
       e.name \notin torn => e.readers = Cardinality(Leases(e.name))
  /\ enabled =>
    /\ cache.resident = Total(ToSet(cache.entries), LAMBDA e : e.bytes)
    /\ cache.reserved = Total(DOMAIN cache.pending, LAMBDA n : cache.pending[n])
    /\ cache.resident + cache.reserved <= limit
    /\ Len(cache.entries) + Cardinality(DOMAIN cache.pending) <= MaxEntries
    /\ Total(DOMAIN cache.files, LAMBDA n : Len(cache.files[n]))
         + Total(DOMAIN cache.temps, LAMBDA n : Len(cache.temps[n])) <= limit
    /\ DOMAIN cache.pending = DOMAIN cache.temps
    /\ DOMAIN cache.pending = leaked \cup {task[t].name : t \in {u \in Task : Filling(u)}}

(* Whatever mix of cached chunks, pinned files, fills and bypasses served   *)
(* it, a get that answers returns the bytes of the object in the range     *)
(* asked (get_opts, read_range_chunked), also after a crash and a restart. *)
AnswersExact ==
  \A t \in Task : task[t].pc = "done" =>
    task[t].out = Slice(Bytes(task[t].obj), Lo(task[t]), Hi(task[t]))
=============================================================================
