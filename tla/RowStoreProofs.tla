--------------------------- MODULE RowStoreProofs ---------------------------
(***************************************************************************)
(* RowStore for any number of threads, rows, sets, ways and lock stripes:  *)
(* a fetched row is the checkpoint's row, the cache is coherent under its  *)
(* locks and stays within its budget.                                      *)
(***************************************************************************)
EXTENDS RowStore, FiniteSetTheorems, TLAPS

LEMMA ModRange ==
    ASSUME NEW a \in Nat, NEW b \in Nat \ {0}
    PROVE  a % b \in 0..(b - 1)
OBVIOUS

(* The sets a budget pays for fit in it. *)
LEMMA BudgetBound ==
    ASSUME NEW b \in Nat, NEW w \in 1..16
    PROVE  SetsFor(b, w) \in Nat /\ SetsFor(b, w) * w * SlotBytes + SetsFor(b, w) <= b
<1> DEFINE d == SlotBytes * w + 1
           q == b \div d
<1>1. w \in Nat /\ SlotBytes \in Nat
  BY StoreAssumption
<1>2. SlotBytes * w \in Nat
  BY <1>1
<1>3. d \in Nat \ {0}
  BY <1>2
<1> HIDE DEF d
<1>4. q \in Nat /\ d * q <= b
  BY <1>3
<1> HIDE DEF q
<1>5. d * q = q * w * SlotBytes + q
  BY <1>1, <1>4 DEF d
<1> QED BY <1>4, <1>5 DEF SetsFor, q, d

(* Threads that hold the lock of one set are the same thread. *)
LEMMA LockExcludes ==
    ASSUME FetchState, NEW t \in Threads, NEW u \in Threads,
           pc[t] \in Locked, pc[u] \in Locked, SetOf(t) = SetOf(u)
    PROVE  t = u
BY DEF FetchState, FetchOK, LockOf

LEMMA SetInRange ==
    ASSUME TypeOK, FetchState, NEW t \in Threads, pc[t] \in Locked \cup {"lookup", "insert"}
    PROVE  SetOf(t) \in SetIds /\ LockOf(t) \in 0..(NumLocks - 1)
<1>1. id[t] \in Nat /\ sets \in Nat \ {0}
  BY DEF FetchState, FetchOK, TypeOK, Locked
<1>2. SetOf(t) \in SetIds
  BY <1>1, ModRange DEF SetOf, SetIds
<1>3. SetOf(t) \in Nat
  BY <1>1, <1>2 DEF SetIds
<1> QED BY <1>2, <1>3, ModRange, StoreAssumption DEF LockOf

(* abort() changes nothing that IInv speaks of but the flag. *)
LEMMA FailStep ==
    ASSUME IInv, aborted' \in BOOLEAN,
           UNCHANGED <<config, keys, cache, victim, locks, stats, pc, id, row, way, fetches, owned>>
    PROVE  IInv'
<1> USE DEF config, stats, SetIds, WayIds, SetOf, LockOf, Mine
<1>1. TypeOK'
  BY DEF IInv, TypeOK
<1>2. ShardsAligned' /\ CacheWithinBudget' /\ ExactRows'
  BY DEF IInv, ShardsAligned, CacheWithinBudget, ExactRows
<1>3. FetchState'
  BY DEF IInv, FetchState, FetchOK
<1>4. CacheCoherent'
  BY DEF IInv, CacheCoherent, SlotCoherent
<1> QED BY <1>1, <1>2, <1>3, <1>4 DEF IInv

----------------------------------------------------------------------------
(* Loading: no fetch is in progress, so only the configuration matters. *)

LEMMA OpenStep ==
    ASSUME IInv, NEW b \in Budgets, NEW w \in WaysChoices, NEW ram \in BOOLEAN, NEW ok \in BOOLEAN,
           Open(b, w, ram, ok)
    PROVE  IInv'
<1> USE StoreAssumption
<1>0. TypeOK /\ ShardsAligned /\ FetchState /\ CacheCoherent /\ ExactRows /\ CacheWithinBudget /\ phase = "closed"
  BY DEF IInv, Open
<1>1. CASE ~ok
  BY <1>1, FailStep DEF Open, Fail
<1>2. CASE ok
  <2>1. /\ phase' = "opened" /\ row_lo' = 0 /\ row_hi' = NumRows /\ resident' = ram /\ ways' = w
        /\ budget' = IF ram THEN 0 ELSE b
        /\ sets' = SetsFor(budget', w)
        /\ keys' = [i \in 0..(sets' - 1) |-> [j \in 0..(w - 1) |-> 0]]
        /\ cache' = [i \in 0..(sets' - 1) |-> [j \in 0..(w - 1) |-> ZeroRow]]
        /\ victim' = [i \in 0..(sets' - 1) |-> 0]
        /\ UNCHANGED <<aborted, scales, packed, locks, hits, misses, reads, pc, id, row, way, fetches, owned>>
    BY <1>2 DEF Open, stats, Fail
  <2>2. budget' \in Nat /\ w \in 1..16 /\ w \in Nat
    BY <2>1
  <2>3. sets' \in Nat /\ sets' * ways' * SlotBytes + sets' <= budget'
    BY <2>1, <2>2, BudgetBound
  <2>4. \A t \in Threads : pc[t] = "done" /\ id[t] = -1
    BY <1>0 DEF ShardsAligned
  <2>5. TypeOK'
    <3>1. /\ keys' \in [0..(sets' - 1) -> [0..(ways' - 1) -> Nat]]
          /\ victim' \in [0..(sets' - 1) -> 0..(ways' - 1)]
          /\ DOMAIN cache' = 0..(sets' - 1)
          /\ \A x \in 0..(sets' - 1) : DOMAIN cache'[x] = 0..(ways' - 1)
      BY <2>1, <2>2
    <3>2. /\ phase' \in {"closed", "opened", "attached", "serving"}
          /\ row_lo' \in Nat /\ row_hi' \in Nat /\ row_hi' <= NumRows
          /\ ways' \in 1..16 /\ resident' \in BOOLEAN
      BY <2>1, <2>2
    <3> QED BY <1>0, <2>1, <2>2, <2>3, <3>1, <3>2 DEF TypeOK, SetIds, WayIds
  <2>6. ShardsAligned'
    BY <1>0, <2>1, <2>4 DEF ShardsAligned
  <2>7. FetchState' /\ ExactRows'
    BY <2>1, <2>4 DEF FetchState, FetchOK, ExactRows, Locked
  <2>8. CacheCoherent'
    BY <2>1 DEF CacheCoherent, SlotCoherent, SetIds, WayIds
  <2> QED BY <2>3, <2>5, <2>6, <2>7, <2>8 DEF IInv, CacheWithinBudget
<1> QED BY <1>1, <1>2

LEMMA RangeStep ==
    ASSUME IInv, NEW lo \in Nat, NEW hi \in Nat, NEW pin \in BOOLEAN, RowRange(lo, hi, pin)
    PROVE  IInv'
<1> USE StoreAssumption
<1>0. TypeOK /\ ShardsAligned /\ FetchState /\ CacheCoherent /\ ExactRows /\ CacheWithinBudget
  BY DEF IInv
<1>1. phase = "opened"
  BY DEF RowRange
<1>2. CASE BadRange(lo, hi)
  BY <1>2, FailStep DEF RowRange, Fail
<1>3. CASE ~BadRange(lo, hi)
  <2>1. /\ row_lo' = lo /\ row_hi' = hi
        /\ scales' = IF scales = None /\ hi > lo /\ pin THEN lo ELSE scales
        /\ UNCHANGED <<phase, budget, sets, ways, resident, packed, aborted, keys, cache, victim,
                       locks, hits, misses, reads, pc, id, row, way, fetches, owned>>
    BY <1>3 DEF RowRange, stats
  <2>2. hi <= NumRows /\ scales' \in Nat \cup {None}
    BY <1>0, <1>1, <1>3, <2>1 DEF TypeOK, BadRange
  <2>3. TypeOK'
    BY <1>0, <1>1, <2>1, <2>2 DEF TypeOK, SetIds, WayIds
  <2>4. \A t \in Threads : pc[t] = "done" /\ id[t] = -1
    BY <1>0, <1>1 DEF ShardsAligned
  <2>5. ShardsAligned'
    BY <1>0, <1>1, <1>3, <2>1, <2>4 DEF ShardsAligned, BadRange
  <2>6. FetchState' /\ ExactRows'
    BY <2>1, <2>4 DEF FetchState, FetchOK, ExactRows, Locked
  <2>7. CacheCoherent' /\ CacheWithinBudget'
    BY <1>0, <2>1 DEF CacheCoherent, SlotCoherent, CacheWithinBudget, SetIds, WayIds, SetOf
  <2> QED BY <2>3, <2>5, <2>6, <2>7 DEF IInv
<1> QED BY <1>2, <1>3

LEMMA AttachStep ==
    ASSUME IInv, NEW h \in Headers, AttachPacked(h)
    PROVE  IInv'
<1> USE StoreAssumption
<1>0. TypeOK /\ ShardsAligned /\ FetchState /\ CacheCoherent /\ ExactRows /\ CacheWithinBudget
  BY DEF IInv
<1>1. CASE h.lo # row_lo \/ h.hi # row_hi \/ h.rows # NumRows \/ h.size < h.hi - h.lo
  BY <1>1, FailStep DEF AttachPacked, Fail
<1>2. CASE ~(h.lo # row_lo \/ h.hi # row_hi \/ h.rows # NumRows \/ h.size < h.hi - h.lo)
  <2>1. /\ packed' = row_lo /\ phase = "opened" /\ phase' = "attached"
        /\ UNCHANGED <<row_lo, row_hi, budget, sets, ways, resident, scales, aborted, keys, cache,
                       victim, locks, hits, misses, reads, pc, id, row, way, fetches, owned>>
    BY <1>2 DEF AttachPacked, stats
  <2>2. TypeOK' /\ ShardsAligned'
    BY <1>0, <2>1 DEF TypeOK, SetIds, WayIds, ShardsAligned
  <2>3. \A t \in Threads : pc[t] = "done"
    BY <1>0, <2>1 DEF ShardsAligned
  <2>4. FetchState' /\ ExactRows' /\ CacheCoherent' /\ CacheWithinBudget'
    BY <1>0, <2>1, <2>3 DEF Locked, FetchState, FetchOK, ExactRows, CacheCoherent, SlotCoherent, CacheWithinBudget,
       SetIds, WayIds, SetOf, LockOf, Mine
  <2> QED BY <2>2, <2>4 DEF IInv
<1> QED BY <1>1, <1>2

LEMMA LoadedStep == ASSUME IInv, Loaded PROVE IInv'
<1>0. /\ TypeOK /\ ShardsAligned /\ FetchState /\ CacheCoherent /\ ExactRows /\ CacheWithinBudget
      /\ phase # "serving" /\ phase' = "serving"
      /\ UNCHANGED <<row_lo, row_hi, budget, sets, ways, resident, scales, packed, aborted, keys, cache,
                     victim, locks, hits, misses, reads, pc, id, row, way, fetches, owned>>
  BY DEF IInv, Loaded, stats
<1>1. TypeOK' /\ ShardsAligned'
  BY <1>0 DEF TypeOK, SetIds, WayIds, ShardsAligned
<1>2. FetchState' /\ ExactRows' /\ CacheCoherent' /\ CacheWithinBudget'
  BY <1>0 DEF FetchState, FetchOK, ExactRows, CacheCoherent, SlotCoherent, CacheWithinBudget,
     SetIds, WayIds, SetOf, LockOf, Mine, ShardsAligned, Locked
<1> QED BY <1>1, <1>2 DEF IInv

----------------------------------------------------------------------------
(* Fetching.  Each lemma's <1>0 lists what the action of thread t does; the *)
(* other threads' buffers are untouched, and the lock keeps their slots.    *)

LEMMA BeginStep ==
    ASSUME IInv, NEW t \in Threads, NEW i \in Ids, Begin(t, i)
    PROVE  IInv'
<1> USE StoreAssumption
<1>0. TypeOK /\ ShardsAligned /\ FetchState /\ CacheCoherent /\ ExactRows /\ CacheWithinBudget
  BY DEF IInv
<1>1. CASE i < 0 \/ i >= NumRows
  BY <1>1, FailStep DEF Begin, Fail
<1>2. CASE ~(i < 0 \/ i >= NumRows)
  <2> DEFINE to == IF ~Mine(i) THEN "done" ELSE IF sets > 0 THEN "lookup" ELSE "read"
  <2>1. /\ phase = "serving" /\ pc[t] = "done" /\ i \in Nat /\ i # -1
        /\ pc' = [pc EXCEPT ![t] = to]
        /\ id' = [id EXCEPT ![t] = i] /\ row' = [row EXCEPT ![t] = ZeroRow]
        /\ owned' = owned \/ owned' = owned + 1
        /\ fetches' = fetches + 1
        /\ UNCHANGED <<phase, row_lo, row_hi, budget, sets, ways, resident, scales, packed, aborted,
                       keys, cache, victim, locks, hits, misses, reads, way>>
    BY <1>2 DEF Begin, config, stats, Mine
  <2>2. TypeOK'
    <3>1. to \in Pcs /\ i \in Int
      BY <2>1 DEF Pcs
    <3>2. owned' \in Nat /\ fetches' \in Nat
      <4>1. owned \in Nat /\ fetches \in Nat
        BY <1>0 DEF TypeOK
      <4>2. (owned' = owned \/ owned' = owned + 1) /\ fetches' = fetches + 1
        BY <2>1
      <4> QED BY <4>1, <4>2
    <3>3. pc' \in [Threads -> Pcs] /\ id' \in [Threads -> Int] /\ DOMAIN row' = Threads
      <4> HIDE DEF to
      <4> QED BY <1>0, <2>1, <3>1 DEF TypeOK
    <3> HIDE DEF to
    <3> QED BY <1>0, <2>1, <3>2, <3>3 DEF TypeOK, SetIds, WayIds
  <2>3. /\ pc'[t] = to /\ id'[t] = i /\ row'[t] = ZeroRow
        /\ \A u \in Threads \ {t} : pc'[u] = pc[u] /\ id'[u] = id[u] /\ row'[u] = row[u]
    BY <1>0, <2>1 DEF TypeOK
  <2>4. ShardsAligned' /\ CacheWithinBudget'
    BY <1>0, <2>1 DEF ShardsAligned, CacheWithinBudget
  <2>5. FetchOK(t)' /\ \A u \in Threads \ {t} : FetchOK(u)'
    BY <1>0, <2>1, <2>3 DEF TypeOK, FetchState, FetchOK, Locked, Mine, SetOf, LockOf, WayIds
  <2>6. ExactRows'
    BY <1>0, <2>1, <2>3 DEF ExactRows, Mine
  <2>7. CacheCoherent'
    BY <1>0, <2>1, <2>3 DEF CacheCoherent, SlotCoherent, SetIds, WayIds, SetOf
  <2> QED BY <2>2, <2>4, <2>5, <2>6, <2>7 DEF IInv, FetchState
<1> QED BY <1>1, <1>2

LEMMA LockStep ==
    ASSUME IInv, NEW t \in Threads, LockScan(t) \/ LockInsert(t)
    PROVE  IInv'
<1> USE StoreAssumption
<1>0. /\ TypeOK /\ ShardsAligned /\ FetchState /\ CacheCoherent /\ ExactRows /\ CacheWithinBudget
      /\ \/ pc[t] = "lookup" /\ pc' = [pc EXCEPT ![t] = "scan"]
         \/ pc[t] = "insert" /\ pc' = [pc EXCEPT ![t] = "data"]
      /\ locks[LockOf(t)] = None /\ locks' = [locks EXCEPT ![LockOf(t)] = t]
      /\ UNCHANGED <<phase, row_lo, row_hi, budget, sets, ways, resident, scales, packed, aborted,
                     keys, cache, victim, hits, misses, reads, id, row, way, fetches, owned>>
  BY DEF IInv, LockScan, LockInsert, Goto, config, stats
<1>1. LockOf(t) \in 0..(NumLocks - 1)
  BY <1>0, SetInRange
<1>2. TypeOK'
  BY <1>0, <1>1 DEF TypeOK, SetIds, WayIds, Pcs
<1>3. /\ \/ pc[t] = "lookup" /\ pc'[t] = "scan"
         \/ pc[t] = "insert" /\ pc'[t] = "data"
      /\ \A u \in Threads \ {t} : pc'[u] = pc[u]
      /\ locks'[LockOf(t)] = t
      /\ \A l \in 0..(NumLocks - 1) : l # LockOf(t) => locks'[l] = locks[l]
  BY <1>0, <1>1 DEF TypeOK
<1>4. ShardsAligned' /\ CacheWithinBudget' /\ ExactRows'
  BY <1>0, <1>3 DEF ShardsAligned, CacheWithinBudget, ExactRows, FetchState, FetchOK, Mine
<1>5. ASSUME NEW u \in Threads, u # t, pc[u] \in Locked PROVE locks'[LockOf(u)] = u
  <2>1. LockOf(u) \in 0..(NumLocks - 1) /\ locks[LockOf(u)] = u
    BY <1>0, <1>5, SetInRange DEF FetchState, FetchOK
  <2> QED BY <1>0, <1>3, <2>1
<1>6. FetchOK(t)'
  BY <1>0, <1>3 DEF FetchState, FetchOK, Locked, Mine, SetOf, LockOf, WayIds
<1>7. \A u \in Threads \ {t} : FetchOK(u)'
  BY <1>0, <1>3, <1>5 DEF FetchState, FetchOK, Mine, SetOf, LockOf, WayIds
<1>8. CacheCoherent'
  BY <1>0, <1>3 DEF CacheCoherent, SlotCoherent, SetIds, WayIds, SetOf
<1> QED BY <1>2, <1>4, <1>6, <1>7, <1>8 DEF IInv, FetchState


LEMMA ScanStep ==
    ASSUME IInv, NEW t \in Threads, Scan(t)
    PROVE  IInv'
<1> USE StoreAssumption
<1>0. /\ TypeOK /\ ShardsAligned /\ FetchState /\ CacheCoherent /\ ExactRows /\ CacheWithinBudget
      /\ pc[t] = "scan"
      /\ UNCHANGED <<phase, row_lo, row_hi, budget, sets, ways, resident, scales, packed, aborted,
                     keys, cache, victim, hits, misses, reads, id, row, fetches, owned>>
  BY DEF IInv, Scan, config, stats
<1>1. /\ LockOf(t) \in 0..(NumLocks - 1) /\ SetOf(t) \in SetIds
      /\ locks[LockOf(t)] = t /\ sets > 0
  BY <1>0, SetInRange DEF FetchState, FetchOK, Locked
<1>2. CASE \E w \in WayIds : /\ keys[SetOf(t)][w] = id[t] + 1
                             /\ pc' = [pc EXCEPT ![t] = "hit"]
                             /\ way' = [way EXCEPT ![t] = w]
                             /\ UNCHANGED locks
  <2>1. PICK w \in WayIds : /\ keys[SetOf(t)][w] = id[t] + 1
                            /\ pc' = [pc EXCEPT ![t] = "hit"]
                            /\ way' = [way EXCEPT ![t] = w]
                            /\ UNCHANGED locks
    BY <1>2
  <2>2. /\ pc'[t] = "hit" /\ way'[t] = w /\ w \in Nat
        /\ \A u \in Threads \ {t} : pc'[u] = pc[u] /\ way'[u] = way[u]
    BY <1>0, <2>1 DEF TypeOK, WayIds
  <2>3. TypeOK'
    BY <1>0, <2>1, <2>2 DEF TypeOK, SetIds, WayIds, Pcs
  <2>4. ShardsAligned' /\ CacheWithinBudget' /\ ExactRows'
    BY <1>0, <2>1, <2>2 DEF ShardsAligned, CacheWithinBudget, ExactRows, FetchState, FetchOK, Mine
  <2>5. FetchOK(t)'
    BY <1>0, <2>1, <2>2 DEF FetchState, FetchOK, Locked, Mine, SetOf, LockOf, WayIds
  <2>6. \A u \in Threads \ {t} : FetchOK(u)'
    BY <1>0, <2>1, <2>2 DEF FetchState, FetchOK, Mine, SetOf, LockOf, WayIds
  <2>7. CacheCoherent'
    BY <1>0, <2>1, <2>2 DEF CacheCoherent, SlotCoherent, SetIds, WayIds, SetOf
  <2> QED BY <2>3, <2>4, <2>5, <2>6, <2>7 DEF IInv, FetchState
<1>3. CASE pc' = [pc EXCEPT ![t] = "read"] /\ Unlock(t) /\ UNCHANGED way
  <2>1. /\ pc'[t] = "read" /\ \A u \in Threads \ {t} : pc'[u] = pc[u]
        /\ locks' = [locks EXCEPT ![LockOf(t)] = None]
        /\ \A l \in 0..(NumLocks - 1) : l # LockOf(t) => locks'[l] = locks[l]
    BY <1>0, <1>1, <1>3 DEF TypeOK, Unlock
  <2>2. TypeOK'
    BY <1>0, <1>1, <1>3, <2>1 DEF TypeOK, SetIds, WayIds, Pcs
  <2>3. ShardsAligned' /\ CacheWithinBudget' /\ ExactRows'
    BY <1>0, <2>1 DEF ShardsAligned, CacheWithinBudget, ExactRows, FetchState, FetchOK, Mine
  <2>4. ASSUME NEW u \in Threads, u # t, pc[u] \in Locked PROVE locks'[LockOf(u)] = u
    <3>1. LockOf(u) \in 0..(NumLocks - 1) /\ locks[LockOf(u)] = u
      BY <1>0, <2>4, SetInRange DEF FetchState, FetchOK
    <3> QED BY <1>1, <2>1, <2>4, <3>1
  <2>5. FetchOK(t)'
    BY <1>0, <1>3, <2>1 DEF FetchState, FetchOK, Locked, Mine
  <2>6. \A u \in Threads \ {t} : FetchOK(u)'
    BY <1>0, <1>3, <2>1, <2>4 DEF FetchState, FetchOK, Mine, SetOf, LockOf, WayIds
  <2>7. CacheCoherent'
    BY <1>0, <1>3, <2>1 DEF CacheCoherent, SlotCoherent, SetIds, WayIds, SetOf
  <2> QED BY <2>2, <2>3, <2>5, <2>6, <2>7 DEF IInv, FetchState
<1> QED BY <1>2, <1>3 DEF Scan

(* What CopyHit and InsertKey share: t lets go of its lock and is done, the  *)
(* other threads keep theirs. *)
LEMMA UnlockFrame ==
    ASSUME TypeOK, FetchState, NEW t \in Threads, pc[t] \in Locked, Unlock(t),
           pc' = [pc EXCEPT ![t] = "done"],
           UNCHANGED <<sets, id>>
    PROVE  /\ pc'[t] = "done"
           /\ \A u \in Threads \ {t} : pc'[u] = pc[u]
           /\ pc' \in [Threads -> Pcs]
           /\ locks' \in [0..(NumLocks - 1) -> Threads \cup {None}]
           /\ \A u \in Threads \ {t} : pc[u] \in Locked => locks'[LockOf(u)'] = u
<1> USE StoreAssumption
<1>1. LockOf(t) \in 0..(NumLocks - 1) /\ locks[LockOf(t)] = t
  BY SetInRange DEF FetchState, FetchOK
<1>2. ASSUME NEW u \in Threads, u # t, pc[u] \in Locked PROVE locks'[LockOf(u)'] = u
  <2>1. LockOf(u) \in 0..(NumLocks - 1) /\ locks[LockOf(u)] = u /\ LockOf(u)' = LockOf(u)
    BY <1>2, SetInRange DEF FetchState, FetchOK, LockOf, SetOf
  <2> QED BY <1>1, <1>2, <2>1 DEF Unlock, TypeOK
<1> QED BY <1>1, <1>2 DEF Unlock, TypeOK, Pcs

LEMMA CopyHitStep ==
    ASSUME IInv, NEW t \in Threads, CopyHit(t)
    PROVE  IInv'
<1> USE StoreAssumption
<1>0. /\ TypeOK /\ ShardsAligned /\ FetchState /\ CacheCoherent /\ ExactRows /\ CacheWithinBudget
      /\ pc[t] = "hit" /\ pc' = [pc EXCEPT ![t] = "done"] /\ Unlock(t)
      /\ row' = [row EXCEPT ![t] = cache[SetOf(t)][way[t]]]
      /\ hits' = hits + 1
      /\ UNCHANGED <<phase, row_lo, row_hi, budget, sets, ways, resident, scales, packed, aborted,
                     keys, cache, victim, misses, reads, id, way, fetches, owned>>
  BY DEF IInv, CopyHit, Goto, config, stats
<1>1. /\ pc'[t] = "done" /\ \A u \in Threads \ {t} : pc'[u] = pc[u]
      /\ pc' \in [Threads -> Pcs] /\ locks' \in [0..(NumLocks - 1) -> Threads \cup {None}]
      /\ \A u \in Threads \ {t} : pc[u] \in Locked => locks'[LockOf(u)'] = u
  BY <1>0, UnlockFrame DEF Locked
<1>2. /\ row'[t] = cache[SetOf(t)][way[t]] /\ DOMAIN row' = Threads
      /\ \A u \in Threads \ {t} : row'[u] = row[u]
  BY <1>0 DEF TypeOK
<1>3. cache[SetOf(t)][way[t]] = Row(id[t])
  <2>1. /\ way[t] \in WayIds /\ keys[SetOf(t)][way[t]] = id[t] + 1 /\ id[t] \in Nat
        /\ SetOf(t) \in SetIds
    BY <1>0, SetInRange DEF FetchState, FetchOK, Locked
  <2>2. ~ \E u \in Threads : pc[u] = "key" /\ SetOf(u) = SetOf(t) /\ way[u] = way[t]
    BY <1>0, LockExcludes DEF Locked
  <2>3. SlotCoherent(SetOf(t), way[t])
    BY <1>0, <2>1 DEF CacheCoherent
  <2> HIDE DEF Row
  <2> QED BY <2>1, <2>2, <2>3 DEF SlotCoherent
<1>4. TypeOK'
  <2>1. hits' \in Nat
    <3>1. hits \in Nat
      BY <1>0 DEF TypeOK
    <3>2. hits' = hits + 1
      BY <1>0
    <3> QED BY <3>1, <3>2
  <2>2. DOMAIN cache' = SetIds' /\ \A x \in SetIds' : DOMAIN cache'[x] = WayIds'
    BY <1>0 DEF TypeOK, SetIds, WayIds
  <2>3. keys' \in [SetIds' -> [WayIds' -> Nat]] /\ victim' \in [SetIds' -> WayIds']
    BY <1>0 DEF TypeOK, SetIds, WayIds
  <2> QED BY <1>0, <1>1, <1>2, <2>1, <2>2, <2>3 DEF TypeOK
<1>5. ShardsAligned' /\ CacheWithinBudget'
  BY <1>0, <1>1 DEF ShardsAligned, CacheWithinBudget, FetchState, FetchOK
<1>6. ExactRows'
  BY <1>0, <1>1, <1>2, <1>3 DEF ExactRows, FetchState, FetchOK, Mine
<1>7. FetchOK(t)'
  BY <1>1 DEF FetchOK, Locked
<1>8. \A u \in Threads \ {t} : FetchOK(u)'
  BY <1>0, <1>1, <1>2 DEF FetchState, FetchOK, Mine, SetOf, WayIds
<1>9. CacheCoherent'
  BY <1>0, <1>1 DEF CacheCoherent, SlotCoherent, SetIds, WayIds, SetOf
<1> QED BY <1>4, <1>5, <1>6, <1>7, <1>8, <1>9 DEF IInv, FetchState

(* What the steps of a miss share: t holds no lock and changes its own      *)
(* buffer and place only.                                                   *)
LEMMA MissFrame ==
    ASSUME IInv, NEW t \in Threads, NEW to \in {"scale", "count", "insert", "done"},
           pc[t] \in {"read", "scale", "count"}, pc' = [pc EXCEPT ![t] = to],
           DOMAIN row' = Threads, \A u \in Threads \ {t} : row'[u] = row[u],
           to = "scale" => packed = None /\ row'[t] = [w |-> id[t], s |-> None],
           to # "scale" => row'[t] = Row(id[t]),
           to = "insert" => sets > 0,
           misses' \in Nat, reads' \in Nat,
           UNCHANGED <<config, aborted, keys, cache, victim, locks, hits, id, way, fetches, owned>>
    PROVE  IInv'
<1> USE StoreAssumption
<1>0. /\ TypeOK /\ ShardsAligned /\ FetchState /\ CacheCoherent /\ ExactRows /\ CacheWithinBudget
      /\ UNCHANGED <<phase, row_lo, row_hi, budget, sets, ways, resident, scales, packed, aborted,
                     keys, cache, victim, locks, hits, id, way, fetches, owned>>
  BY DEF IInv, config
<1>1. id[t] \in Nat /\ phase = "serving" /\ Mine(id[t])
  BY <1>0 DEF FetchState, FetchOK
<1>2. /\ pc'[t] = to /\ pc' \in [Threads -> Pcs]
      /\ \A u \in Threads \ {t} : pc'[u] = pc[u]
  BY <1>0 DEF TypeOK, Pcs
<1>3. TypeOK'
  <2>1. DOMAIN cache' = SetIds' /\ \A x \in SetIds' : DOMAIN cache'[x] = WayIds'
    BY <1>0 DEF TypeOK, SetIds, WayIds
  <2>2. keys' \in [SetIds' -> [WayIds' -> Nat]] /\ victim' \in [SetIds' -> WayIds']
    BY <1>0 DEF TypeOK, SetIds, WayIds
  <2> QED BY <1>0, <1>2, <2>1, <2>2 DEF TypeOK
<1>4. ShardsAligned' /\ CacheWithinBudget'
  BY <1>0, <1>1 DEF ShardsAligned, CacheWithinBudget
<1>5. ExactRows'
  BY <1>0, <1>1, <1>2 DEF ExactRows, Mine
<1>6. FetchOK(t)'
  BY <1>0, <1>1, <1>2 DEF FetchOK, Locked, Mine
<1>7. ASSUME NEW u \in Threads \ {t} PROVE FetchOK(u)'
  <2>1. FetchOK(u)
    BY <1>0 DEF FetchState
  <2>2. SetOf(u)' = SetOf(u) /\ LockOf(u)' = LockOf(u) /\ WayIds' = WayIds /\ Mine(id[u])' = Mine(id[u])
    BY <1>0 DEF SetOf, LockOf, WayIds, Mine
  <2> QED BY <1>0, <1>2, <2>1, <2>2 DEF FetchOK
<1>8. CacheCoherent'
  BY <1>0, <1>2 DEF CacheCoherent, SlotCoherent, SetIds, WayIds, SetOf
<1> QED BY <1>3, <1>4, <1>5, <1>6, <1>7, <1>8 DEF IInv, FetchState

LEMMA ReadRowStep == ASSUME IInv, NEW t \in Threads, ReadRow(t) PROVE IInv'
<1> DEFINE to == IF packed # None THEN "count" ELSE "scale"
<1>0. /\ TypeOK /\ ShardsAligned /\ FetchState
      /\ pc[t] = "read" /\ pc' = [pc EXCEPT ![t] = to]
      /\ row' = [row EXCEPT ![t] = IF packed # None THEN Row(packed + (id[t] - row_lo))
                                                   ELSE [w |-> id[t], s |-> None]]
      /\ reads' = reads + FirstReads /\ misses' = misses
      /\ UNCHANGED <<config, aborted, keys, cache, victim, locks, hits, id, way, fetches, owned>>
  BY DEF IInv, ReadRow, Goto
<1>1. id[t] \in Nat /\ Mine(id[t])
  BY <1>0 DEF FetchState, FetchOK
<1>2. packed # None => packed + (id[t] - row_lo) = id[t]
  BY <1>0, <1>1 DEF ShardsAligned, TypeOK
<1>3. /\ DOMAIN row' = Threads /\ \A u \in Threads \ {t} : row'[u] = row[u]
      /\ packed # None => row'[t] = Row(id[t])
      /\ packed = None => row'[t] = [w |-> id[t], s |-> None]
  BY <1>0, <1>2 DEF TypeOK
<1>4. reads' \in Nat /\ misses' \in Nat
  BY <1>0 DEF TypeOK, FirstReads
<1>5. /\ to \in {"scale", "count", "insert", "done"} /\ to # "insert"
      /\ to = "scale" => packed = None
      /\ to # "scale" => packed # None
  OBVIOUS
<1> HIDE DEF to
<1> QED BY <1>0, <1>3, <1>4, <1>5, MissFrame

LEMMA ReadScaleStep == ASSUME IInv, NEW t \in Threads, ReadScale(t) PROVE IInv'
<1>0. /\ TypeOK /\ ShardsAligned /\ FetchState
      /\ pc[t] = "scale" /\ pc' = [pc EXCEPT ![t] = "count"]
      /\ row' = [row EXCEPT ![t].s = IF scales # None THEN scales + (id[t] - row_lo) ELSE id[t]]
      /\ reads' = reads + SecondReads /\ misses' = misses
      /\ UNCHANGED <<config, aborted, keys, cache, victim, locks, hits, id, way, fetches, owned>>
  BY DEF IInv, ReadScale, Goto
<1>1. id[t] \in Nat /\ Mine(id[t]) /\ row[t] = [w |-> id[t], s |-> None]
  BY <1>0 DEF FetchState, FetchOK
<1>2. scales # None => scales + (id[t] - row_lo) = id[t]
  BY <1>0, <1>1 DEF ShardsAligned, TypeOK
<1>3. row' = [row EXCEPT ![t].s = id[t]]
  BY <1>0, <1>2
<1>4. /\ DOMAIN row' = Threads /\ \A u \in Threads \ {t} : row'[u] = row[u]
      /\ row'[t] = Row(id[t])
  BY <1>0, <1>1, <1>3 DEF TypeOK, Row
<1>5. reads' \in Nat /\ misses' \in Nat
  BY <1>0 DEF TypeOK, SecondReads
<1> QED BY <1>0, <1>4, <1>5, MissFrame

LEMMA CountMissStep == ASSUME IInv, NEW t \in Threads, CountMiss(t) PROVE IInv'
<1> DEFINE to == IF sets > 0 THEN "insert" ELSE "done"
<1>0. /\ TypeOK /\ FetchState
      /\ pc[t] = "count" /\ pc' = [pc EXCEPT ![t] = to]
      /\ misses' = misses + 1 /\ reads' = reads /\ row' = row
      /\ UNCHANGED <<config, aborted, keys, cache, victim, locks, hits, id, way, fetches, owned>>
  BY DEF IInv, CountMiss, Goto
<1>1. row[t] = Row(id[t])
  BY <1>0 DEF FetchState, FetchOK
<1>2. reads' \in Nat /\ misses' \in Nat /\ DOMAIN row' = Threads
  BY <1>0 DEF TypeOK
<1>3. to \in {"scale", "count", "insert", "done"} /\ to # "scale" /\ (to = "insert" => sets > 0)
  OBVIOUS
<1> HIDE DEF to
<1> QED BY <1>0, <1>1, <1>2, <1>3, MissFrame

LEMMA InsertDataStep ==
    ASSUME IInv, NEW t \in Threads, InsertData(t)
    PROVE  IInv'
<1> USE StoreAssumption
<1> DEFINE set == SetOf(t)
           w == victim[set] % ways
<1>0. /\ TypeOK /\ ShardsAligned /\ FetchState /\ CacheCoherent /\ ExactRows /\ CacheWithinBudget
      /\ pc[t] = "data" /\ pc' = [pc EXCEPT ![t] = "key"]
      /\ way' = [way EXCEPT ![t] = w]
      /\ victim' = [victim EXCEPT ![set] = (victim[set] + 1) % ways]
      /\ cache' = [cache EXCEPT ![set][w] = row[t]]
      /\ UNCHANGED <<phase, row_lo, row_hi, budget, sets, ways, resident, scales, packed, aborted,
                     keys, locks, hits, misses, reads, id, row, fetches, owned>>
  BY DEF IInv, InsertData, Goto, config, stats
<1>1. set \in SetIds /\ row[t] = Row(id[t])
  BY <1>0, SetInRange DEF FetchState, FetchOK, Locked
<1>2. w \in WayIds /\ w \in Nat /\ (victim[set] + 1) % ways \in WayIds
  <2>0. ways \in 1..16 /\ victim \in [SetIds -> WayIds]
    BY DEF IInv, TypeOK
  <2>1. ways \in Nat \ {0} /\ victim[set] \in WayIds
    BY <1>1, <2>0
  <2>2. victim[set] \in Nat /\ victim[set] + 1 \in Nat
    BY <2>1 DEF WayIds
  <2> HIDE DEF set
  <2>3. victim[set] % ways \in 0..(ways - 1) /\ (victim[set] + 1) % ways \in 0..(ways - 1)
    BY <2>1, <2>2, ModRange
  <2> QED BY <2>1, <2>3 DEF WayIds
<1> HIDE DEF set, w
<1>3. /\ pc'[t] = "key" /\ way'[t] = w
      /\ \A u \in Threads \ {t} : pc'[u] = pc[u] /\ way'[u] = way[u]
  BY <1>0 DEF TypeOK
<1>4. /\ DOMAIN cache' = SetIds /\ \A x \in SetIds : DOMAIN cache'[x] = WayIds
      /\ cache'[set][w] = row[t]
      /\ \A x \in SetIds, v \in WayIds : x # set \/ v # w => cache'[x][v] = cache[x][v]
  <2>1. cache'[set] = [cache[set] EXCEPT ![w] = row[t]] /\ \A x \in SetIds : x # set => cache'[x] = cache[x]
    BY <1>0, <1>1 DEF TypeOK
  <2> QED BY <1>0, <1>1, <1>2, <2>1 DEF TypeOK
<1>5. TypeOK'
  <2>1. SetIds' = SetIds /\ WayIds' = WayIds
    BY <1>0 DEF SetIds, WayIds
  <2>2. victim' \in [SetIds -> WayIds] /\ way' \in [Threads -> Nat] /\ pc' \in [Threads -> Pcs]
    BY <1>0, <1>1, <1>2 DEF TypeOK, Pcs
  <2> QED BY <1>0, <1>4, <2>1, <2>2 DEF TypeOK
<1>6. ShardsAligned' /\ CacheWithinBudget' /\ ExactRows'
  BY <1>0, <1>3 DEF ShardsAligned, CacheWithinBudget, ExactRows, FetchState, FetchOK, Mine
<1>7. FetchOK(t)'
  <2>1. cache'[SetOf(t)'][way'[t]] = Row(id'[t])
    BY <1>0, <1>1, <1>3, <1>4 DEF SetOf, set
  <2> QED BY <1>0, <1>1, <1>2, <1>3, <2>1 DEF FetchState, FetchOK, Locked, Mine, SetOf, LockOf, WayIds
<1>8. ASSUME NEW u \in Threads \ {t} PROVE FetchOK(u)'
  <2>1. pc[u] = "key" => cache'[SetOf(u)][way[u]] = cache[SetOf(u)][way[u]]
    <3>1. SUFFICES ASSUME pc[u] = "key" PROVE cache'[SetOf(u)][way[u]] = cache[SetOf(u)][way[u]]
      OBVIOUS
    <3>2. SetOf(u) \in SetIds /\ way[u] \in WayIds
      BY <1>0, <3>1, SetInRange DEF FetchState, FetchOK, Locked
    <3>3. SetOf(u) # set
      BY <1>0, <1>8, <3>1, LockExcludes DEF Locked, set
    <3> QED BY <1>4, <3>2, <3>3
  <2>2. FetchOK(u)
    BY <1>0 DEF FetchState
  <2> QED BY <1>0, <1>3, <2>1, <2>2 DEF FetchOK, Mine, SetOf, LockOf, WayIds
<1>9. CacheCoherent'
  <2>1. ASSUME NEW x \in SetIds, NEW v \in WayIds PROVE SlotCoherent(x, v)'
    <3>1. SlotCoherent(x, v)
      BY <1>0 DEF CacheCoherent
    <3>2. CASE x = set /\ v = w
      BY <1>0, <1>3, <3>1, <3>2 DEF SlotCoherent, SetOf, set
    <3>3. CASE ~(x = set /\ v = w)
      <4>1. cache'[x][v] = cache[x][v]
        BY <1>4, <3>3
      <4> QED BY <1>0, <1>3, <3>1, <4>1 DEF SlotCoherent, SetOf
    <3> QED BY <3>2, <3>3
  <2> QED BY <1>0, <2>1 DEF CacheCoherent, SetIds, WayIds
<1> QED BY <1>5, <1>6, <1>7, <1>8, <1>9 DEF IInv, FetchState

LEMMA InsertKeyStep ==
    ASSUME IInv, NEW t \in Threads, InsertKey(t)
    PROVE  IInv'
<1> USE StoreAssumption
<1> DEFINE set == SetOf(t)
<1>0. /\ TypeOK /\ ShardsAligned /\ FetchState /\ CacheCoherent /\ ExactRows /\ CacheWithinBudget
      /\ pc[t] = "key" /\ pc' = [pc EXCEPT ![t] = "done"] /\ Unlock(t)
      /\ keys' = [keys EXCEPT ![set][way[t]] = id[t] + 1]
      /\ UNCHANGED <<phase, row_lo, row_hi, budget, sets, ways, resident, scales, packed, aborted,
                     cache, victim, hits, misses, reads, id, row, way, fetches, owned>>
  BY DEF IInv, InsertKey, Goto, config, stats
<1>1. /\ set \in SetIds /\ way[t] \in WayIds /\ id[t] \in Nat
      /\ row[t] = Row(id[t]) /\ cache[set][way[t]] = Row(id[t])
  BY <1>0, SetInRange DEF FetchState, FetchOK, Locked
<1>2. /\ pc'[t] = "done" /\ \A u \in Threads \ {t} : pc'[u] = pc[u]
      /\ pc' \in [Threads -> Pcs] /\ locks' \in [0..(NumLocks - 1) -> Threads \cup {None}]
      /\ \A u \in Threads \ {t} : pc[u] \in Locked => locks'[LockOf(u)'] = u
  BY <1>0, UnlockFrame DEF Locked
<1>3. id[t] % sets = set
  BY DEF SetOf
<1> HIDE DEF set
<1>4. /\ keys' \in [SetIds -> [WayIds -> Nat]]
      /\ keys'[set][way[t]] = id[t] + 1
      /\ \A x \in SetIds, v \in WayIds : x # set \/ v # way[t] => keys'[x][v] = keys[x][v]
  <2>1. /\ keys'[set] = [keys[set] EXCEPT ![way[t]] = id[t] + 1]
        /\ \A x \in SetIds : x # set => keys'[x] = keys[x]
        /\ DOMAIN keys' = SetIds
    BY <1>0, <1>1 DEF TypeOK
  <2>2. keys'[set] \in [WayIds -> Nat]
    BY <1>0, <1>1, <2>1 DEF TypeOK
  <2> QED BY <1>0, <1>1, <2>1, <2>2 DEF TypeOK
<1>5. TypeOK'
  <2>1. SetIds' = SetIds /\ WayIds' = WayIds
    BY <1>0 DEF SetIds, WayIds
  <2> QED BY <1>0, <1>2, <1>4, <2>1 DEF TypeOK
<1>6. ShardsAligned' /\ CacheWithinBudget'
  BY <1>0, <1>2 DEF ShardsAligned, CacheWithinBudget, FetchState, FetchOK
<1>7. ExactRows'
  BY <1>0, <1>1, <1>2 DEF ExactRows, FetchState, FetchOK, Mine
<1>8. FetchOK(t)'
  BY <1>2 DEF FetchOK, Locked
<1>9. ASSUME NEW u \in Threads \ {t} PROVE FetchOK(u)'
  <2>1. pc[u] = "hit" => keys'[SetOf(u)][way[u]] = keys[SetOf(u)][way[u]]
    <3>1. SUFFICES ASSUME pc[u] = "hit" PROVE keys'[SetOf(u)][way[u]] = keys[SetOf(u)][way[u]]
      OBVIOUS
    <3>2. SetOf(u) \in SetIds /\ way[u] \in WayIds
      BY <1>0, <3>1, SetInRange DEF FetchState, FetchOK, Locked
    <3>3. SetOf(u) # set
      BY <1>0, <1>9, <3>1, LockExcludes DEF Locked, set
    <3> QED BY <1>4, <3>2, <3>3
  <2>2. FetchOK(u)
    BY <1>0 DEF FetchState
  <2>3. SetOf(u)' = SetOf(u) /\ WayIds' = WayIds /\ Mine(id[u])' = Mine(id[u])
    BY <1>0 DEF SetOf, WayIds, Mine
  <2> QED BY <1>0, <1>2, <2>1, <2>2, <2>3 DEF FetchOK
<1>10. CacheCoherent'
  <2>1. ASSUME NEW x \in SetIds, NEW v \in WayIds PROVE SlotCoherent(x, v)'
    <3>1. SlotCoherent(x, v)
      BY <1>0 DEF CacheCoherent
    <3>2. CASE x = set /\ v = way[t]
      <4>1. keys'[x][v] - 1 = id[t]
        BY <1>1, <1>4, <3>2
      <4> QED BY <1>0, <1>1, <1>3, <3>2, <4>1 DEF SlotCoherent
    <3>3. CASE ~(x = set /\ v = way[t])
      <4>1. keys'[x][v] = keys[x][v]
        BY <1>4, <3>3
      <4> QED BY <1>0, <1>2, <3>1, <3>3, <4>1 DEF SlotCoherent, SetOf, set
    <3> QED BY <3>2, <3>3
  <2> QED BY <1>0, <2>1 DEF CacheCoherent, SetIds, WayIds
<1> QED BY <1>5, <1>6, <1>7, <1>8, <1>9, <1>10 DEF IInv, FetchState

----------------------------------------------------------------------------
LEMMA InitIInv == Init => IInv
<1> SUFFICES ASSUME Init PROVE IInv
  OBVIOUS
<1> USE StoreAssumption DEF Init
<1>1. TypeOK
  <2>1. SetIds = {}
    BY DEF SetIds
  <2>2. keys \in [SetIds -> [WayIds -> Nat]] /\ victim \in [SetIds -> WayIds] /\ DOMAIN cache = SetIds
    BY <2>1
  <2>3. locks \in [0..(NumLocks - 1) -> Threads \cup {None}] /\ pc \in [Threads -> Pcs] /\ id \in [Threads -> Int]
    BY DEF Pcs
  <2>4. /\ phase \in {"closed", "opened", "attached", "serving"}
        /\ row_lo \in Nat /\ row_hi \in Nat /\ row_hi <= NumRows
        /\ budget \in Nat /\ sets \in Nat /\ ways \in 1..16
        /\ hits \in Nat /\ misses \in Nat /\ reads \in Nat
        /\ DOMAIN row = Threads /\ way \in [Threads -> Nat] /\ fetches \in Nat /\ owned \in Nat
    OBVIOUS
  <2>5. aborted \in BOOLEAN /\ resident \in BOOLEAN /\ scales \in Nat \cup {None} /\ packed \in Nat \cup {None}
    OBVIOUS
  <2> HIDE DEF Init
  <2> QED BY <2>1, <2>2, <2>3, <2>4, <2>5 DEF TypeOK
<1>2. ShardsAligned /\ FetchState /\ ExactRows /\ CacheWithinBudget
  BY DEF ShardsAligned, FetchState, FetchOK, ExactRows, CacheWithinBudget, Locked
<1>3. CacheCoherent
  BY DEF CacheCoherent, SetIds
<1> QED BY <1>1, <1>2, <1>3 DEF IInv

LEMMA NextIInv == IInv /\ [Next]_vars => IInv'
<1> SUFFICES ASSUME IInv, [Next]_vars PROVE IInv'
  OBVIOUS
<1>1. CASE UNCHANGED vars
  BY <1>1, FailStep DEF vars, IInv, TypeOK
<1>2. CASE Load
  <2>1. CASE \E b \in Budgets, w \in WaysChoices, ram, ok \in BOOLEAN : Open(b, w, ram, ok)
    BY <2>1, OpenStep
  <2>2. CASE \E r \in Ranges, pin \in BOOLEAN : RowRange(r[1], r[2], pin)
    <3>1. PICK r \in Ranges, pin \in BOOLEAN : RowRange(r[1], r[2], pin)
      BY <2>2
    <3>2. r[1] \in Nat /\ r[2] \in Nat
      BY StoreAssumption
    <3> QED BY <3>1, <3>2, RangeStep
  <2>3. CASE \E h \in Headers : AttachPacked(h)
    BY <2>3, AttachStep
  <2>4. CASE Loaded
    BY <2>4, LoadedStep
  <2> QED BY <1>2, <2>1, <2>2, <2>3, <2>4 DEF Load
<1>3. ASSUME NEW t \in Threads, Local(t) PROVE IInv'
  BY <1>3, LockStep, ScanStep, CopyHitStep, CountMissStep, InsertDataStep, InsertKeyStep DEF Local
<1>4. ASSUME NEW t \in Threads, ReadFails(t) PROVE IInv'
  BY <1>4, FailStep DEF ReadFails, Fail
<1> QED BY <1>1, <1>2, <1>3, <1>4, BeginStep, ReadRowStep, ReadScaleStep DEF Next

(* The inductive invariant holds in every reachable state. *)
THEOREM StoreInvariant == Spec => []IInv
BY InitIInv, NextIInv, PTL DEF Spec

(* Type correctness: in particular the victim cursor always names a way. *)
THEOREM StoreTypes == Spec => []TypeOK
<1>1. IInv => TypeOK
  BY DEF IInv
<1> QED BY <1>1, StoreInvariant, PTL

(* serve() returns the checkpoint's row for an id this rank owns and zeros *)
(* otherwise, for any number of threads, rows, sets, ways and stripes.     *)
THEOREM RowsExact == Spec => []ExactRows
<1>1. IInv => ExactRows
  BY DEF IInv
<1> QED BY <1>1, StoreInvariant, PTL

(* A keyed slot holds its key's row, but for the slot being refilled under *)
(* the lock of its set.                                                    *)
THEOREM CacheCoherence == Spec => []CacheCoherent
<1>1. IInv => CacheCoherent
  BY DEF IInv
<1> QED BY <1>1, StoreInvariant, PTL

(* row_store_open sizes the cache so that rows, keys and cursors fit.      *)
THEOREM CacheBounded == Spec => []CacheWithinBudget
<1>1. IInv => CacheWithinBudget
  BY DEF IInv
<1> QED BY <1>1, StoreInvariant, PTL

----------------------------------------------------------------------------
(* The counters.  A fetch is counted as owned when it begins and as a hit  *)
(* or a miss once; in between it is open, and its preads may be counted    *)
(* before it is.  What a miss reads is fixed before the first of them.     *)

OpenAt == {"lookup", "scan", "hit", "read", "scale", "count"}

ReadsCounted ==
    reads = FirstReads * (misses + Cardinality(At({"scale", "count"})))
          + SecondReads * (misses + Cardinality(At({"count"})))

Counted ==
    /\ IsFiniteSet(At(OpenAt))
    /\ phase # "serving" => misses = 0
    /\ hits + misses + Cardinality(At(OpenAt)) = owned
    /\ ReadsCounted

LEMMA ReadsTypes ==
    /\ FirstReads \in {0, 1} /\ SecondReads \in {0, 1}
    /\ UNCHANGED config => FirstReads' = FirstReads /\ SecondReads' = SecondReads
BY DEF FirstReads, SecondReads, config

LEMMA OneMore ==
    ASSUME NEW f \in {0, 1}, NEW a \in Nat
    PROVE  f * (a + 1) = f * a + f /\ f * a \in Nat
<1>1. CASE f = 0
  BY <1>1
<1>2. CASE f = 1
  BY <1>2
<1> QED BY <1>1, <1>2

(* Finitely many threads are at some of the places an open fetch has. *)
LEMMA AtFinite ==
    ASSUME NEW S, S \subseteq OpenAt, IsFiniteSet(At(OpenAt))
    PROVE  IsFiniteSet(At(S)) /\ Cardinality(At(S)) \in Nat
<1>1. At(S) \subseteq At(OpenAt)
  BY DEF At
<1> QED BY <1>1, FS_Subset, FS_CardinalityType

(* A thread that moves enters a set of places, leaves it, or does neither. *)
LEMMA AtMoves ==
    ASSUME NEW S, S \subseteq OpenAt, NEW t \in Threads, NEW to \in Pcs,
           pc \in [Threads -> Pcs], pc' = [pc EXCEPT ![t] = to], IsFiniteSet(At(OpenAt))
    PROVE  /\ IsFiniteSet(At(S)') /\ Cardinality(At(S)) \in Nat /\ Cardinality(At(S)') \in Nat
           /\ (pc[t] \in S <=> to \in S) => Cardinality(At(S)') = Cardinality(At(S))
           /\ pc[t] \notin S /\ to \in S => Cardinality(At(S)') = Cardinality(At(S)) + 1
           /\ pc[t] \in S /\ to \notin S => Cardinality(At(S)') = Cardinality(At(S)) - 1
<1>1. pc'[t] = to /\ \A u \in Threads : u # t => pc'[u] = pc[u]
  OBVIOUS
<1>2. IsFiniteSet(At(S)) /\ Cardinality(At(S)) \in Nat
  BY AtFinite
<1>3. CASE pc[t] \in S <=> to \in S
  <2>1. \A u \in Threads : pc'[u] \in S <=> pc[u] \in S
    BY <1>1, <1>3
  <2>2. At(S)' = At(S)
    BY <2>1 DEF At
  <2> QED BY <1>2, <1>3, <2>2
<1>4. CASE pc[t] \notin S /\ to \in S
  <2>1. At(S)' = At(S) \cup {t} /\ t \notin At(S)
    BY <1>1, <1>4 DEF At
  <2>2. IsFiniteSet(At(S)') /\ Cardinality(At(S)') = Cardinality(At(S)) + 1
    BY <1>2, <2>1, FS_AddElement
  <2> QED BY <1>2, <1>4, <2>2
<1>5. CASE pc[t] \in S /\ to \notin S
  <2>1. At(S)' = At(S) \ {t} /\ t \in At(S)
    BY <1>1, <1>5 DEF At
  <2>2. IsFiniteSet(At(S)') /\ Cardinality(At(S)') = Cardinality(At(S)) - 1
    BY <1>2, <2>1, FS_RemoveElement
  <2>3. Cardinality(At(S)') \in Nat
    BY <2>2, FS_CardinalityType
  <2> QED BY <1>2, <1>5, <2>2, <2>3
<1> QED BY <1>3, <1>4, <1>5

LEMMA NothingRead ==
    ASSUME NEW f \in {0, 1}, NEW g \in {0, 1}
    PROVE  f * (0 + 0) + g * (0 + 0) = 0
<1>1. CASE f = 0
  BY <1>1
<1>2. CASE f = 1
  BY <1>2
<1> QED BY <1>1, <1>2

(* No fetch is open and nothing is counted: what a miss reads may change.  *)
LEMMA CountedAtRest ==
    ASSUME At(OpenAt) = {}, misses = 0
    PROVE  ReadsCounted <=> reads = 0
<1>1. At({"scale", "count"}) = {} /\ At({"count"}) = {}
  BY DEF At, OpenAt
<1>2. Cardinality(At({"scale", "count"})) = 0 /\ Cardinality(At({"count"})) = 0
  BY <1>1, FS_EmptySet
<1> QED BY <1>2, NothingRead, ReadsTypes DEF ReadsCounted

LEMMA CountedInit == Init => Counted
<1> SUFFICES ASSUME Init PROVE Counted
  OBVIOUS
<1>1. At(OpenAt) = {}
  BY DEF Init, At, OpenAt
<1>2. IsFiniteSet(At(OpenAt)) /\ Cardinality(At(OpenAt)) = 0
  BY <1>1, FS_EmptySet
<1>3. ReadsCounted
  BY <1>1, CountedAtRest DEF Init
<1> QED BY <1>2, <1>3 DEF Init, Counted

LEMMA CountedNext == IInv /\ Counted /\ [Next]_vars => Counted'
<1> SUFFICES ASSUME IInv, Counted, [Next]_vars PROVE Counted'
  OBVIOUS
<1> DEFINE RC == Cardinality(At({"scale", "count"}))
           CC == Cardinality(At({"count"}))
           OC == Cardinality(At(OpenAt))
<1>1. pc \in [Threads -> Pcs] /\ hits \in Nat /\ misses \in Nat /\ reads \in Nat /\ owned \in Nat
  BY DEF IInv, TypeOK
<1>2. IsFiniteSet(At(OpenAt)) /\ RC \in Nat /\ CC \in Nat /\ OC \in Nat
  BY AtFinite DEF Counted, OpenAt
<1>3. FirstReads * (misses + RC) \in Nat /\ SecondReads * (misses + CC) \in Nat
  BY <1>1, <1>2, ReadsTypes, OneMore
<1>4. ASSUME UNCHANGED <<config, hits, misses, reads, pc, owned>> PROVE Counted'
  <2>1. \A S : At(S)' = At(S)
    BY <1>4 DEF At
  <2> QED BY <1>4, <2>1, ReadsTypes DEF Counted, ReadsCounted, config
(* A step that only moves t, neither into nor out of the counted places. *)
<1>5. ASSUME NEW t \in Threads, NEW to \in Pcs, pc' = [pc EXCEPT ![t] = to],
             UNCHANGED <<config, hits, misses, reads, owned>>,
             pc[t] \in OpenAt <=> to \in OpenAt,
             pc[t] \notin {"scale", "count"}, to \notin {"scale", "count"}
      PROVE  Counted'
  <2>1. RC' = RC /\ CC' = CC /\ OC' = OC /\ IsFiniteSet(At(OpenAt)')
    BY <1>1, <1>2, <1>5, AtMoves DEF OpenAt
  <2> QED BY <1>5, <2>1, ReadsTypes DEF Counted, ReadsCounted, config
<1>6. CASE UNCHANGED vars
  BY <1>4, <1>6 DEF vars, stats
<1>7. CASE Load
  <2>1. phase # "serving" /\ UNCHANGED <<hits, misses, reads, pc, owned>>
    BY <1>7 DEF Load, Open, RowRange, AttachPacked, Loaded, Fail, stats
  <2>2. misses = 0 /\ At(OpenAt) = {} /\ At(OpenAt)' = {}
    BY <2>1 DEF Counted, IInv, ShardsAligned, At, OpenAt
  <2>3. reads = 0
    BY <2>2, CountedAtRest DEF Counted
  <2>4. ReadsCounted'
    <3>1. At({"scale", "count"})' = {} /\ At({"count"})' = {}
      BY <2>2 DEF At, OpenAt
    <3>2. Cardinality(At({"scale", "count"})') = 0 /\ Cardinality(At({"count"})') = 0
      BY <3>1, FS_EmptySet
    <3>3. FirstReads' \in {0, 1} /\ SecondReads' \in {0, 1}
      BY DEF FirstReads, SecondReads
    <3>4. reads' = 0 /\ misses' = 0
      BY <2>1, <2>2, <2>3
    <3>5. reads' = FirstReads' * (misses' + Cardinality(At({"scale", "count"})'))
                 + SecondReads' * (misses' + Cardinality(At({"count"})'))
      BY <3>2, <3>3, <3>4, NothingRead
    <3> QED BY <3>5 DEF ReadsCounted
  <2> QED BY <2>1, <2>2, <2>4 DEF Counted
<1>8. ASSUME NEW t \in Threads, NEW i \in Ids, Begin(t, i) PROVE Counted'
  <2>1. CASE i < 0 \/ i >= NumRows
    BY <1>4, <1>8, <2>1 DEF Begin, Fail, stats
  <2>2. CASE ~(i < 0 \/ i >= NumRows) /\ ~(row_lo <= i /\ i < row_hi)
    <3>1. /\ pc' = [pc EXCEPT ![t] = "done"] /\ UNCHANGED <<config, hits, misses, reads, owned>> /\ pc[t] = "done"
      BY <1>8, <2>2 DEF Begin, stats
    <3> QED BY <1>5, <3>1 DEF OpenAt, Pcs
  <2>3. CASE ~(i < 0 \/ i >= NumRows) /\ row_lo <= i /\ i < row_hi
    <3> DEFINE to == IF sets > 0 THEN "lookup" ELSE "read"
    <3>1. /\ pc' = [pc EXCEPT ![t] = to] /\ UNCHANGED <<config, hits, misses, reads>> /\ pc[t] = "done"
          /\ owned' = owned + 1
      BY <1>8, <2>3 DEF Begin, stats
    <3>2. to \in Pcs /\ to \in OpenAt \ {"scale", "count"} /\ pc[t] \notin OpenAt
      BY <3>1 DEF OpenAt, Pcs
    <3> HIDE DEF to
    <3>3. RC' = RC /\ CC' = CC /\ OC' = OC + 1 /\ IsFiniteSet(At(OpenAt)')
      BY <1>1, <1>2, <3>1, <3>2, AtMoves DEF OpenAt
    <3>4. ReadsCounted'
      BY <3>1, <3>3, ReadsTypes DEF Counted, ReadsCounted
    <3>5. hits' + misses' + OC' = owned'
      BY <1>1, <1>2, <3>1, <3>3 DEF Counted
    <3> QED BY <3>1, <3>3, <3>4, <3>5 DEF Counted, config
  <2> QED BY <2>1, <2>2, <2>3
<1>9. ASSUME NEW t \in Threads, CopyHit(t) PROVE Counted'
  <2>1. /\ pc[t] = "hit" /\ pc' = [pc EXCEPT ![t] = "done"] /\ hits' = hits + 1
        /\ UNCHANGED <<config, misses, reads, owned>>
    BY <1>9 DEF CopyHit, Goto
  <2>2. RC' = RC /\ CC' = CC /\ OC' = OC - 1 /\ IsFiniteSet(At(OpenAt)')
    BY <1>1, <1>2, <2>1, AtMoves DEF OpenAt, Pcs
  <2> QED BY <1>1, <1>2, <2>1, <2>2, ReadsTypes DEF Counted, ReadsCounted, config
<1>10. ASSUME NEW t \in Threads, CountMiss(t) PROVE Counted'
  <2> DEFINE to == IF sets > 0 THEN "insert" ELSE "done"
  <2>1. /\ pc[t] = "count" /\ pc' = [pc EXCEPT ![t] = to] /\ misses' = misses + 1
        /\ UNCHANGED <<config, hits, reads, owned>>
    BY <1>10 DEF CountMiss, Goto
  <2>2. to \in Pcs /\ to \notin OpenAt
    BY DEF OpenAt, Pcs
  <2> HIDE DEF to
  <2>3. RC' = RC - 1 /\ CC' = CC - 1 /\ OC' = OC - 1 /\ IsFiniteSet(At(OpenAt)')
    BY <1>1, <1>2, <2>1, <2>2, AtMoves DEF OpenAt
  <2>4. misses' + RC' = misses + RC /\ misses' + CC' = misses + CC /\ misses' + OC' = misses + OC
    BY <1>1, <1>2, <2>1, <2>3
  <2>5. phase = "serving"
    BY <2>1 DEF IInv, FetchState, FetchOK
  <2> QED BY <1>1, <1>2, <2>1, <2>3, <2>4, <2>5, ReadsTypes DEF Counted, ReadsCounted, config
<1>11. ASSUME NEW t \in Threads, Local(t) PROVE Counted'
  <2>1. CASE LockScan(t)
    BY <1>5, <2>1 DEF LockScan, Goto, stats, OpenAt, Pcs
  <2>2. CASE Scan(t)
    <3>1. PICK to \in {"hit", "read"} : pc' = [pc EXCEPT ![t] = to]
      BY <2>2 DEF Scan
    <3> QED BY <1>5, <2>2, <3>1 DEF Scan, stats, OpenAt, Pcs
  <2>3. CASE LockInsert(t) \/ InsertData(t) \/ InsertKey(t)
    BY <1>5, <2>3 DEF LockInsert, InsertData, InsertKey, Goto, stats, OpenAt, Pcs
  <2> QED BY <1>9, <1>10, <1>11, <2>1, <2>2, <2>3 DEF Local
<1>12. ASSUME NEW t \in Threads, ReadRow(t) PROVE Counted'
  <2>1. /\ pc[t] = "read" /\ pc' = [pc EXCEPT ![t] = IF packed # None THEN "count" ELSE "scale"]
        /\ reads' = reads + FirstReads /\ UNCHANGED <<config, hits, misses, owned>>
    BY <1>12 DEF ReadRow, Goto
  <2>2. FirstReads * (misses + RC + 1) = FirstReads * (misses + RC) + FirstReads
    BY <1>1, <1>2, ReadsTypes, OneMore
  <2>3. CASE packed # None
    <3>1. RC' = RC + 1 /\ CC' = CC + 1 /\ OC' = OC /\ IsFiniteSet(At(OpenAt)')
      BY <1>1, <1>2, <2>1, <2>3, AtMoves DEF OpenAt, Pcs
    <3>2. SecondReads = 0 /\ \A n \in Nat : 0 * n = 0
      BY <2>3 DEF SecondReads
    <3>3. misses' + RC' = misses + RC + 1
      BY <1>1, <1>2, <2>1, <3>1
    <3>4. /\ FirstReads * (misses' + RC') = FirstReads * (misses + RC) + FirstReads
          /\ SecondReads * (misses' + CC') = 0 /\ SecondReads * (misses + CC) = 0
      BY <1>1, <1>2, <2>1, <2>2, <3>1, <3>2, <3>3
    <3>5. reads' = FirstReads * (misses' + RC') + SecondReads * (misses' + CC')
      BY <1>3, <2>1, <2>2, <3>4, ReadsTypes DEF Counted, ReadsCounted
    <3> QED BY <2>1, <3>1, <3>5, ReadsTypes DEF Counted, ReadsCounted, config
  <2>4. CASE packed = None
    <3>1. RC' = RC + 1 /\ CC' = CC /\ OC' = OC /\ IsFiniteSet(At(OpenAt)')
      BY <1>1, <1>2, <2>1, <2>4, AtMoves DEF OpenAt, Pcs
    <3>2. misses' + RC' = misses + RC + 1
      BY <1>1, <1>2, <2>1, <3>1
    <3>3. /\ FirstReads * (misses' + RC') = FirstReads * (misses + RC) + FirstReads
          /\ SecondReads * (misses' + CC') = SecondReads * (misses + CC)
      BY <2>1, <2>2, <3>1, <3>2
    <3>4. reads = FirstReads * (misses + RC) + SecondReads * (misses + CC) /\ FirstReads \in Nat
      BY ReadsTypes DEF Counted, ReadsCounted
    <3> HIDE DEF RC, CC
    <3>5. reads' = FirstReads * (misses' + RC') + SecondReads * (misses' + CC')
      BY <1>3, <2>1, <3>3, <3>4
    <3> USE DEF RC, CC
    <3> QED BY <2>1, <3>1, <3>5, ReadsTypes DEF Counted, ReadsCounted, config
  <2> QED BY <2>3, <2>4
<1>13. ASSUME NEW t \in Threads, ReadScale(t) PROVE Counted'
  <2>1. /\ pc[t] = "scale" /\ pc' = [pc EXCEPT ![t] = "count"]
        /\ reads' = reads + SecondReads /\ UNCHANGED <<config, hits, misses, owned>>
    BY <1>13 DEF ReadScale, Goto
  <2>2. SecondReads * (misses + CC + 1) = SecondReads * (misses + CC) + SecondReads
    BY <1>1, <1>2, ReadsTypes, OneMore
  <2>3. RC' = RC /\ CC' = CC + 1 /\ OC' = OC /\ IsFiniteSet(At(OpenAt)')
    BY <1>1, <1>2, <2>1, AtMoves DEF OpenAt, Pcs
  <2>4. misses' + CC' = misses + CC + 1
    BY <1>1, <1>2, <2>1, <2>3
  <2>5. /\ FirstReads * (misses' + RC') = FirstReads * (misses + RC)
        /\ SecondReads * (misses' + CC') = SecondReads * (misses + CC) + SecondReads
    BY <2>1, <2>2, <2>3, <2>4
  <2>6. reads = FirstReads * (misses + RC) + SecondReads * (misses + CC) /\ SecondReads \in Nat
    BY ReadsTypes DEF Counted, ReadsCounted
  <2> HIDE DEF RC, CC
  <2>7. reads' = FirstReads * (misses' + RC') + SecondReads * (misses' + CC')
    BY <1>3, <2>1, <2>5, <2>6
  <2> USE DEF RC, CC
  <2> QED BY <2>1, <2>3, <2>7, ReadsTypes DEF Counted, ReadsCounted, config
<1>14. ASSUME NEW t \in Threads, ReadFails(t) PROVE Counted'
  BY <1>4, <1>14 DEF ReadFails, Fail, stats
<1> QED BY <1>6, <1>7, <1>8, <1>11, <1>12, <1>13, <1>14 DEF Next

(* StatsExact for any number of threads, rows, sets, ways and stripes, in  *)
(* every interleaving of their reads and counts: no hit, miss or pread is  *)
(* lost or counted twice.                                                  *)
THEOREM StatsAlwaysExact == Spec => []StatsExact
<1>1. IInv /\ Counted => StatsExact
  BY DEF Counted, ReadsCounted, StatsExact, OpenAt
<1>2. Init => IInv /\ Counted
  BY InitIInv, CountedInit
<1>3. IInv /\ Counted /\ [Next]_vars => (IInv /\ Counted)'
  BY NextIInv, CountedNext
<1> QED BY <1>1, <1>2, <1>3, PTL DEF Spec
=============================================================================
