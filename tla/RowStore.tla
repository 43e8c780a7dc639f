------------------------------ MODULE RowStore ------------------------------
(***************************************************************************)
(* One Engram row store of adapter/row_store.cpp: how it is opened, given  *)
(* the rank's row range and an optional packed shard, and how threads then *)
(* fetch rows through its set-associative cache.  The C functions accept   *)
(* the loading calls in any order; "phase" is the order of their only      *)
(* caller, EngramEmbedding.__init__ in adapter/engram_backend.py.          *)
(*                                                                         *)
(* A row is a weight and a scale; row k of the checkpoint is Row(k).       *)
(* memcpy, each pread with its count, and the writes to cache and keys are *)
(* steps of their own, so that only the striped locks keep them apart.     *)
(* abort() ends the process: it sets "aborted", and nothing happens any    *)
(* more.                                                                   *)
(***************************************************************************)
EXTENDS Integers, FiniteSets

CONSTANTS
    Threads,     \* threads that call serve()
    None,
    NumRows,     \* rows of the table (Store.rows)
    Ids,         \* ids a caller may ask for, out-of-range ones included
    Ranges,      \* ownership ranges <<lo, hi>> the loader may set
    Headers,     \* headers a packed shard on disk may carry
    Budgets,     \* cache budgets in bytes
    WaysChoices, \* DSV41_CACHE_WAYS after clamping to 1..16
    SlotBytes,   \* kRowBytes + sizeof(uint64_t)
    NumLocks,    \* stripes in Store.locks
    MaxFetches   \* bound: how many rows a behaviour asks for

ASSUME StoreAssumption ==
    /\ None \notin Threads
    /\ NumRows \in Nat
    /\ Ids \subseteq Int
    /\ Ranges \subseteq Nat \X Nat
    /\ Headers \subseteq [lo : Nat, hi : Nat, rows : Nat, size : Nat]
    /\ Budgets \subseteq Nat
    /\ WaysChoices \subseteq 1..16
    /\ SlotBytes \in Nat \ {0}
    /\ NumLocks \in Nat \ {0}
    /\ MaxFetches \in Nat

VARIABLES
    phase,               \* place of the loader: "closed", "opened", "attached" or "serving"
    aborted,
    row_lo, row_hi,
    budget, sets, ways,
    resident,            \* OFFLOAD_MODE=ram: the checkpoint file is mapped
    scales,              \* first row of the pinned scale shard, or None
    packed,              \* first row of the attached packed shard, or None
    keys, cache, victim, \* keys[set][way], cache[set][way], victim[set]
    locks,               \* owner of each stripe
    hits, misses, reads,
    pc, id, row, way,    \* per thread: place in serve(), its id, buffer and way
    fetches, owned       \* rows asked for, and how many of them were owned

config == <<phase, row_lo, row_hi, budget, sets, ways, resident, scales, packed>>
stats  == <<hits, misses, reads>>
vars   == <<config, aborted, keys, cache, victim, locks, stats,
            pc, id, row, way, fetches, owned>>

Row(k)  == [w |-> k, s |-> k]
ZeroRow == [w |-> None, s |-> None]

SetIds  == 0..(sets - 1)
WayIds  == 0..(ways - 1)
SetOf(t)  == id[t] % sets
LockOf(t) == SetOf(t) % NumLocks

Init ==
    /\ phase = "closed" /\ aborted = FALSE
    /\ row_lo = 0 /\ row_hi = 0 /\ budget = 0 /\ sets = 0 /\ ways = 1
    /\ resident = FALSE /\ scales = None /\ packed = None
    /\ keys = [i \in {} |-> 0] /\ cache = [i \in {} |-> 0] /\ victim = [i \in {} |-> 0]
    /\ locks = [l \in 0..(NumLocks - 1) |-> None]
    /\ hits = 0 /\ misses = 0 /\ reads = 0
    /\ pc = [t \in Threads |-> "done"]
    /\ id = [t \in Threads |-> -1]
    /\ row = [t \in Threads |-> ZeroRow]
    /\ way = [t \in Threads |-> 0]
    /\ fetches = 0 /\ owned = 0

Fail == aborted' = TRUE /\ UNCHANGED <<config, keys, cache, victim, locks, stats,
                                       pc, id, row, way, fetches, owned>>

----------------------------------------------------------------------------
(* Loading. *)

\* The cache a budget of b bytes pays for: per set, w slots and a cursor.
SetsForRows(b, w) == b \div (SlotBytes * w)  \* mutant: the cursors are not paid for

SetsFor(b, w) == b \div (SlotBytes * w + 1)

\* row_store_open, when the file can be opened.  RAM mode has no cache.
Open(b, w, ram, extentOk) ==
    /\ ~aborted /\ phase = "closed"
    /\ \/ /\ ~extentOk
          /\ Fail
       \/ /\ extentOk
          /\ phase' = "opened"
          /\ row_lo' = 0 /\ row_hi' = NumRows
          /\ resident' = ram
          /\ budget' = IF ram THEN 0 ELSE b
          /\ ways' = w
          /\ sets' = SetsFor(budget', w)
          /\ keys' = [i \in 0..(sets' - 1) |-> [j \in 0..(w - 1) |-> 0]]
          /\ cache' = [i \in 0..(sets' - 1) |-> [j \in 0..(w - 1) |-> ZeroRow]]
          /\ victim' = [i \in 0..(sets' - 1) |-> 0]
          /\ UNCHANGED <<aborted, scales, packed, locks, stats, pc, id, row, way, fetches, owned>>

\* row_store_range, called before any attach.  The scales are pinned unless the
\* environment says not to or pin_scales fails; a range that moves under pinned
\* scales aborts.
BadRangeUnpinned(lo, hi) == lo > hi \/ hi > NumRows  \* mutant

BadRange(lo, hi) ==
    \/ lo > hi \/ hi > NumRows
    \/ scales # None /\ (lo # row_lo \/ hi # row_hi)

RowRange(lo, hi, pin) ==
    /\ ~aborted /\ phase = "opened"
    /\ IF BadRange(lo, hi) THEN Fail
       ELSE /\ row_lo' = lo /\ row_hi' = hi
            /\ scales' = IF scales = None /\ hi > lo /\ pin THEN lo ELSE scales
            /\ UNCHANGED <<phase, budget, sets, ways, resident, packed, aborted,
                           keys, cache, victim, locks, stats, pc, id, row, way, fetches, owned>>

\* row_store_attach_packed, when the shard's file exists.
AttachPacked(h) ==
    /\ ~aborted /\ phase = "opened"
    /\ IF \/ h.lo # row_lo \/ h.hi # row_hi \/ h.rows # NumRows
          \/ h.size < h.hi - h.lo
       THEN Fail
       ELSE /\ packed' = h.lo
            /\ phase' = "attached"
            /\ UNCHANGED <<row_lo, row_hi, budget, sets, ways, resident, scales, aborted,
                           keys, cache, victim, locks, stats, pc, id, row, way, fetches, owned>>

\* EngramEmbedding.__init__ returns: lookups may start.
Loaded ==
    /\ ~aborted /\ phase \in {"opened", "attached"}
    /\ phase' = "serving"
    /\ UNCHANGED <<row_lo, row_hi, budget, sets, ways, resident, scales, packed, aborted,
                   keys, cache, victim, locks, stats, pc, id, row, way, fetches, owned>>

----------------------------------------------------------------------------
(* serve() and fetch_row(), one row at a time. *)

Goto(t, from, to) == ~aborted /\ pc[t] = from /\ pc' = [pc EXCEPT ![t] = to]

Unlock(t) == locks' = [locks EXCEPT ![LockOf(t)] = None]

\* serve(): bounds check, zeros for a row of another rank, or fetch_row.
Begin(t, i) ==
    /\ ~aborted /\ phase = "serving" /\ pc[t] = "done" /\ fetches < MaxFetches
    /\ IF i < 0 \/ i >= NumRows
       THEN Fail
       ELSE LET mine == row_lo <= i /\ i < row_hi IN
            /\ fetches' = fetches + 1
            /\ id' = [id EXCEPT ![t] = i]
            /\ row' = [row EXCEPT ![t] = ZeroRow]
            /\ owned' = IF mine THEN owned + 1 ELSE owned
            /\ pc' = [pc EXCEPT ![t] = IF ~mine THEN "done" ELSE IF sets > 0 THEN "lookup" ELSE "read"]
            /\ UNCHANGED <<config, aborted, keys, cache, victim, locks, stats, way>>

LockScan(t) ==
    /\ Goto(t, "lookup", "scan")
    /\ locks[LockOf(t)] = None
    /\ locks' = [locks EXCEPT ![LockOf(t)] = t]
    /\ UNCHANGED <<config, aborted, keys, cache, victim, stats, id, row, way, fetches, owned>>

\* Mutant: the lock is kept across the read.
ScanKeepsLock(t) ==
    /\ ~aborted /\ pc[t] = "scan"
    /\ LET found == {w \in WayIds : keys[SetOf(t)][w] = id[t] + 1} IN
       \/ \E w \in found :
            /\ pc' = [pc EXCEPT ![t] = "hit"]
            /\ way' = [way EXCEPT ![t] = w]
       \/ /\ found = {}
          /\ pc' = [pc EXCEPT ![t] = "read"]
          /\ UNCHANGED way
    /\ UNCHANGED <<config, aborted, keys, cache, victim, locks, stats, id, row, fetches, owned>>

\* The scan over the ways of the set; a miss releases the lock.
Scan(t) ==
    /\ ~aborted /\ pc[t] = "scan"
    /\ LET found == {w \in WayIds : keys[SetOf(t)][w] = id[t] + 1} IN
       \/ \E w \in found :
            /\ \A v \in found : w <= v
            /\ pc' = [pc EXCEPT ![t] = "hit"]
            /\ way' = [way EXCEPT ![t] = w]
            /\ UNCHANGED locks
       \/ /\ found = {}
          /\ pc' = [pc EXCEPT ![t] = "read"]
          /\ Unlock(t)
          /\ UNCHANGED way
    /\ UNCHANGED <<config, aborted, keys, cache, victim, stats, id, row, fetches, owned>>

\* The row is copied out of the cache under the lock.
CopyHit(t) ==
    /\ Goto(t, "hit", "done")
    /\ row' = [row EXCEPT ![t] = cache[SetOf(t)][way[t]]]
    /\ hits' = hits + 1
    /\ Unlock(t)
    /\ UNCHANGED <<config, aborted, keys, cache, victim, misses, reads, id, way, fetches, owned>>

\* Preads a miss makes before and after its scale is looked for.  A packed row
\* is one read; the mapping of RAM mode serves the checkpoint file only.
FirstReads  == IF packed = None /\ resident THEN 0 ELSE 1
SecondReads == IF packed # None \/ resident \/ scales # None THEN 0 ELSE 1

\* The miss path, without a lock: the packed row or the checkpoint's weight.
ReadRow(t) ==
    /\ Goto(t, "read", IF packed # None THEN "count" ELSE "scale")
    /\ row' = [row EXCEPT ![t] = IF packed # None THEN Row(packed + (id[t] - row_lo))
                                                 ELSE [w |-> id[t], s |-> None]]
    /\ reads' = reads + FirstReads
    /\ UNCHANGED <<config, aborted, keys, cache, victim, locks, hits, misses, id, way, fetches, owned>>

\* The scale: from the pinned shard or the checkpoint.
ReadScale(t) ==
    /\ Goto(t, "scale", "count")
    /\ row' = [row EXCEPT ![t].s = IF scales # None THEN scales + (id[t] - row_lo) ELSE id[t]]
    /\ reads' = reads + SecondReads
    /\ UNCHANGED <<config, aborted, keys, cache, victim, locks, hits, misses, id, way, fetches, owned>>

\* read_from: a short or failed pread aborts uncounted (EINTR is retried).
ReadFails(t) ==
    /\ ~aborted
    /\ \/ pc[t] = "read" /\ FirstReads > 0
       \/ pc[t] = "scale" /\ SecondReads > 0
    /\ Fail

\* Mutant: the miss is counted after the early return of an uncached store.
CountMissCached(t) ==
    /\ Goto(t, "count", IF sets > 0 THEN "insert" ELSE "done")
    /\ misses' = IF sets > 0 THEN misses + 1 ELSE misses
    /\ UNCHANGED <<config, aborted, keys, cache, victim, locks, hits, reads, id, row, way, fetches, owned>>

CountMiss(t) ==
    /\ Goto(t, "count", IF sets > 0 THEN "insert" ELSE "done")
    /\ misses' = misses + 1
    /\ UNCHANGED <<config, aborted, keys, cache, victim, locks, hits, reads, id, row, way, fetches, owned>>

\* Mutant: the insertion does not take the lock again.
LockInsertUnlocked(t) ==
    /\ Goto(t, "insert", "data")
    /\ UNCHANGED <<config, aborted, keys, cache, victim, locks, stats, id, row, way, fetches, owned>>

LockInsert(t) ==
    /\ Goto(t, "insert", "data")
    /\ locks[LockOf(t)] = None
    /\ locks' = [locks EXCEPT ![LockOf(t)] = t]
    /\ UNCHANGED <<config, aborted, keys, cache, victim, stats, id, row, way, fetches, owned>>

\* Mutant: the cursor is not wrapped.
InsertDataUnwrapped(t) ==
    /\ Goto(t, "data", "key")
    /\ LET set == SetOf(t)
           w == victim[set] % ways IN
         /\ way' = [way EXCEPT ![t] = w]
         /\ victim' = [victim EXCEPT ![set] = victim[set] + 1]
         /\ cache' = [cache EXCEPT ![set][w] = row[t]]
    /\ UNCHANGED <<config, aborted, keys, locks, stats, id, row, fetches, owned>>

\* Round-robin victim: the row's bytes first, then its key.
InsertData(t) ==
    /\ Goto(t, "data", "key")
    /\ LET set == SetOf(t)
           w == victim[set] % ways IN
         /\ way' = [way EXCEPT ![t] = w]
         /\ victim' = [victim EXCEPT ![set] = (victim[set] + 1) % ways]
         /\ cache' = [cache EXCEPT ![set][w] = row[t]]
    /\ UNCHANGED <<config, aborted, keys, locks, stats, id, row, fetches, owned>>

InsertKey(t) ==
    /\ Goto(t, "key", "done")
    /\ keys' = [keys EXCEPT ![SetOf(t)][way[t]] = id[t] + 1]
    /\ Unlock(t)
    /\ UNCHANGED <<config, aborted, cache, victim, stats, id, row, way, fetches, owned>>

----------------------------------------------------------------------------
Load ==
    \/ \E b \in Budgets, w \in WaysChoices, ram, ok \in BOOLEAN : Open(b, w, ram, ok)
    \/ \E r \in Ranges, pin \in BOOLEAN : RowRange(r[1], r[2], pin)
    \/ \E h \in Headers : AttachPacked(h)
    \/ Loaded

\* The steps of a fetch that read no file.
Local(t) ==
    \/ LockScan(t) \/ Scan(t) \/ CopyHit(t) \/ CountMiss(t)
    \/ LockInsert(t) \/ InsertData(t) \/ InsertKey(t)

Next ==
    \/ Load
    \/ \E t \in Threads :
         \/ \E i \in Ids : Begin(t, i)
         \/ Local(t) \/ ReadRow(t) \/ ReadScale(t) \/ ReadFails(t)

Spec == Init /\ [][Next]_vars

(***************************************************************************)
(* A thread that can take a cache lock eventually does, and steps on.      *)
(* Nothing is assumed of a read: NFS may hang.                             *)
(***************************************************************************)
FairSpec == Spec /\ \A t \in Threads : SF_vars(Local(t))

----------------------------------------------------------------------------
(* Properties. *)

Pcs == {"done", "lookup", "scan", "hit", "read", "scale", "count", "insert", "data", "key"}

TypeOK ==
    /\ phase \in {"closed", "opened", "attached", "serving"} /\ aborted \in BOOLEAN
    /\ row_lo \in Nat /\ row_hi \in Nat /\ row_hi <= NumRows
    /\ budget \in Nat /\ sets \in Nat /\ ways \in 1..16
    /\ resident \in BOOLEAN
    /\ scales \in Nat \cup {None} /\ packed \in Nat \cup {None}
    /\ keys \in [SetIds -> [WayIds -> Nat]]
    /\ DOMAIN cache = SetIds /\ \A x \in SetIds : DOMAIN cache[x] = WayIds
    /\ victim \in [SetIds -> WayIds]
    /\ locks \in [0..(NumLocks - 1) -> Threads \cup {None}]
    /\ hits \in Nat /\ misses \in Nat /\ reads \in Nat
    /\ pc \in [Threads -> Pcs]
    /\ id \in [Threads -> Int]
    /\ DOMAIN row = Threads
    /\ way \in [Threads -> Nat]
    /\ fetches \in Nat /\ owned \in Nat

Mine(i) == row_lo <= i /\ i < row_hi

(* Every row serve() has returned is the checkpoint's row of that id, or   *)
(* zeros when another rank owns it: "Never allow a generation to continue  *)
(* with missing/stale rows", whatever threads, evictions and pinned or     *)
(* packed shards were involved.                                            *)
ExactRows ==
    \A t \in Threads : pc[t] = "done" /\ id[t] # -1 =>
        row[t] = IF Mine(id[t]) THEN Row(id[t]) ELSE ZeroRow

(* A slot whose key is set holds that key's row, in the set the key hashes *)
(* to, unless the holder of the set's lock is between the two writes of an *)
(* insertion into that slot.                                               *)
SlotCoherent(x, w) == keys[x][w] # 0 =>
    /\ (keys[x][w] - 1) % sets = x
    /\ \/ cache[x][w] = Row(keys[x][w] - 1)
       \/ \E t \in Threads : pc[t] = "key" /\ SetOf(t) = x /\ way[t] = w

CacheCoherent == \A x \in SetIds, w \in WayIds : SlotCoherent(x, w)

(* The cache, its keys and its cursors never exceed the budget.            *)
CacheWithinBudget == sets * ways * SlotBytes + sets <= budget

(* What ExactRows and CacheCoherent rest on: the pinned and packed shards are *)
(* indexed from the current row_lo, fetches only happen while serving, the *)
(* lock of the set is held around each cache access, and the buffers of a  *)
(* fetch in progress hold what its place in fetch_row says.                *)
ShardsAligned ==
    /\ scales # None => scales = row_lo
    /\ packed # None => packed = row_lo
    /\ phase = "closed" => scales = None
    /\ phase \in {"closed", "opened"} => packed = None
    /\ phase # "serving" => \A t \in Threads : pc[t] = "done" /\ id[t] = -1

Locked == {"scan", "hit", "data", "key"}

FetchOK(t) ==
    /\ pc[t] # "done" => phase = "serving" /\ id[t] \in Nat /\ Mine(id[t])
    /\ pc[t] \in Locked \cup {"lookup", "insert"} => sets > 0
    /\ pc[t] \in Locked => locks[LockOf(t)] = t
    /\ pc[t] = "scale" => packed = None /\ row[t] = [w |-> id[t], s |-> None]
    /\ pc[t] \in {"count", "insert", "data", "key"} => row[t] = Row(id[t])
    /\ pc[t] = "hit" => way[t] \in WayIds /\ keys[SetOf(t)][way[t]] = id[t] + 1
    /\ pc[t] = "key" => way[t] \in WayIds /\ cache[SetOf(t)][way[t]] = Row(id[t])

FetchState == \A t \in Threads : FetchOK(t)

IInv ==
    /\ TypeOK
    /\ ShardsAligned
    /\ FetchState
    /\ CacheCoherent
    /\ ExactRows
    /\ CacheWithinBudget

At(places) == {t \in Threads : pc[t] \in places}

(* The counters row_store_stats reports, which lookups in flight may be    *)
(* moving: every owned row looked up is a hit, a miss or still uncounted,  *)
(* and the preads counted are those of the counted misses and of the       *)
(* misses between their reads and their count.  With no lookup in flight   *)
(* this is what tests/test_row_store.py compares: hits + misses is the     *)
(* number of owned rows looked up, and a miss costs one pread with pinned  *)
(* scales or a packed shard, two without, none from the mapping.           *)
StatsExact ==
    /\ hits + misses + Cardinality(At({"lookup", "scan", "hit", "read", "scale", "count"})) = owned
    /\ reads = FirstReads * (misses + Cardinality(At({"scale", "count"})))
             + SecondReads * (misses + Cardinality(At({"count"})))

(* A read that hangs holds up nobody else: a thread that is not itself     *)
(* stuck in a read for ever finishes each of its fetches ("read outside    *)
(* the lock so same-set misses overlap").                                  *)
HungReadBlocksNobody ==
    \A t \in Threads :
        []<>(pc[t] \notin {"read", "scale"}) => (pc[t] # "done" ~> (pc[t] = "done" \/ aborted))
=============================================================================
