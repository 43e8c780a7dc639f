------------------------- MODULE GraphForwardProofs -------------------------
(***************************************************************************)
(* The MoE ladder serves every batch it admits, and every forward gathers  *)
(* its own rows.                                                           *)
(***************************************************************************)
EXTENDS GraphForward, FiniteSetTheorems, SequenceTheorems, TLAPS

----------------------------------------------------------------------------
(* The ladder. *)

LEMMA RungChosen ==
  ASSUME NEW m \in Nat, NEW cap \in LADDER, m > EXACT_MAX, m <= cap,
         \A c \in LADDER : m <= c => cap <= c
  PROVE  cap_for(m) = cap
  <1>1. \A c \in LADDER : c \in Nat  BY DEF LADDER
  <1>2. \A c \in LADDER : (m <= c /\ \A d \in LADDER : m <= d => c <= d) => c = cap
    BY <1>1
  <1> QED BY <1>2 DEF cap_for, EXACT_MAX

\* The bucket of each band of the ladder.
LEMMA CapOfBand ==
  ASSUME NEW m \in 1..MAX_CAP
  PROVE  /\ m <= 96 => cap_for(m) = m
         /\ m \in 97..128 => cap_for(m) = 128
         /\ m \in 129..256 => cap_for(m) = 256
         /\ m \in 257..512 => cap_for(m) = 512
         /\ m \in 513..1024 => cap_for(m) = 1024
         /\ m \in 1025..2304 => cap_for(m) = 2304
         /\ m \in 2305..4096 => cap_for(m) = 4096
  <1> m \in Nat  BY DEF MAX_CAP
  <1>1. m <= 96 => cap_for(m) = m  BY DEF cap_for, EXACT_MAX
  <1>2. m \in 97..128 => cap_for(m) = 128  BY RungChosen DEF LADDER, EXACT_MAX
  <1>3. m \in 129..256 => cap_for(m) = 256  BY RungChosen DEF LADDER, EXACT_MAX
  <1>4. m \in 257..512 => cap_for(m) = 512  BY RungChosen DEF LADDER, EXACT_MAX
  <1>5. m \in 513..1024 => cap_for(m) = 1024  BY RungChosen DEF LADDER, EXACT_MAX
  <1>6. m \in 1025..2304 => cap_for(m) = 2304  BY RungChosen DEF LADDER, EXACT_MAX
  <1>7. m \in 2305..4096 => cap_for(m) = 4096  BY RungChosen DEF LADDER, EXACT_MAX
  <1> QED BY <1>1, <1>2, <1>3, <1>4, <1>5, <1>6, <1>7

\* A bucket serves m once it has the rows and the tiles.
LEMMA EnoughTiles ==
  ASSUME NEW m \in Nat, NEW cap \in Nat, m <= cap,
         max_rows(routed_rows(m)) <= max_rows(routed_rows(cap)),
         physical_tiles(routed_rows(m)) \in Int, physical_tiles(routed_rows(cap)) \in Int,
         physical_tiles(routed_rows(m)) <= physical_tiles(routed_rows(cap))
  PROVE  Serves(cap, m)
  <1>1. CeilDiv(intermediate_size, 128) = 18  BY DEF CeilDiv, intermediate_size
  <1>2. task_capacity(routed_rows(m)) <= task_capacity(routed_rows(cap))
    BY <1>1 DEF task_capacity
  <1>3. routed_rows(m) <= routed_rows(cap)  BY DEF routed_rows, num_topk
  <1> QED BY <1>2, <1>3 DEF Serves

\* The plan by the number of tokens, for 33 tokens and more.
LEMMA PlanOf ==
  ASSUME NEW m \in 33..MAX_CAP
  PROVE  /\ m <= 512 => /\ max_rows(routed_rows(m)) = ((6 * m + 15) \div 16) * 16
                        /\ physical_tiles(routed_rows(m)) = (6 * m + 15) \div 16 + 191
         /\ m \in 513..1151 => /\ max_rows(routed_rows(m)) = ((6 * m + 31) \div 32) * 32
                               /\ physical_tiles(routed_rows(m)) = (6 * m + 31) \div 32 + 191
         /\ m >= 1152 => /\ max_rows(routed_rows(m)) = ((6 * m + 63) \div 64) * 64
                         /\ physical_tiles(routed_rows(m)) = (6 * m + 63) \div 64 + 191
  <1> m \in Nat  BY DEF MAX_CAP
  <1>1. routed_rows(m) = 6 * m /\ 192 < 6 * m  BY DEF routed_rows, num_topk
  <1>2. m <= 512 => tile_m(routed_rows(m)) = 16  BY <1>1 DEF tile_m, num_experts
  <1>3. m \in 513..1151 => tile_m(routed_rows(m)) = 32  BY <1>1 DEF tile_m, num_experts
  <1>4. m >= 1152 => tile_m(routed_rows(m)) = 64  BY <1>1 DEF tile_m, num_experts
  <1> QED BY <1>1, <1>2, <1>3, <1>4 DEF max_rows, physical_tiles, CeilDiv, num_experts

(* Every batch of up to MAX_CAP tokens is served by its bucket's           *)
(* workspace (adapter/moe_b12x.py _CAPS_A8, b12x _validate_workspace).     *)
THEOREM LadderServes == \A m \in 1..MAX_CAP : Serves(cap_for(m), m)
  <1> TAKE m \in 1..MAX_CAP
  <1> m \in Nat /\ m >= 1  BY DEF MAX_CAP
  <1>1. CASE m <= 96
    <2>1. routed_rows(m) \in Nat /\ routed_rows(m) >= 1  BY DEF routed_rows, num_topk
    <2>2. /\ max_rows(routed_rows(m)) \in Int
          /\ physical_tiles(routed_rows(m)) \in Int
          /\ task_capacity(routed_rows(m)) \in Int
      BY <2>1 DEF max_rows, physical_tiles, task_capacity, CeilDiv, tile_m, num_experts, intermediate_size
    <2>3. cap_for(m) = m  BY <1>1, CapOfBand
    <2> QED BY <2>1, <2>2, <2>3 DEF Serves
  <1>2. CASE m > 96
    <2> m \in 33..MAX_CAP  BY <1>2
    <2>1. /\ max_rows(routed_rows(128)) = 768 /\ physical_tiles(routed_rows(128)) = 239
          /\ max_rows(routed_rows(256)) = 1536 /\ physical_tiles(routed_rows(256)) = 287
          /\ max_rows(routed_rows(512)) = 3072 /\ physical_tiles(routed_rows(512)) = 383
          /\ max_rows(routed_rows(1024)) = 6144 /\ physical_tiles(routed_rows(1024)) = 383
          /\ max_rows(routed_rows(2304)) = 13824 /\ physical_tiles(routed_rows(2304)) = 407
          /\ max_rows(routed_rows(4096)) = 24576 /\ physical_tiles(routed_rows(4096)) = 575
      BY DEF routed_rows, num_topk, max_rows, physical_tiles, CeilDiv, tile_m, num_experts
    <2>2. CASE m <= 512
      <3>1. /\ max_rows(routed_rows(m)) = ((6 * m + 15) \div 16) * 16
            /\ physical_tiles(routed_rows(m)) = (6 * m + 15) \div 16 + 191
        BY <2>2, PlanOf
      <3>2. CASE m <= 128
        <4>1. (6 * m + 15) \div 16 <= 48  BY <3>2
        <4>2. cap_for(m) = 128  BY <1>2, <3>2, CapOfBand
        <4> QED BY <2>1, <3>1, <3>2, <4>1, <4>2, EnoughTiles
      <3>3. CASE m \in 129..256
        <4>1. (6 * m + 15) \div 16 <= 96  BY <3>3
        <4>2. cap_for(m) = 256  BY <3>3, CapOfBand
        <4> QED BY <2>1, <3>1, <3>3, <4>1, <4>2, EnoughTiles
      <3>4. CASE m \in 257..512
        <4>1. (6 * m + 15) \div 16 <= 192  BY <3>4
        <4>2. cap_for(m) = 512  BY <3>4, CapOfBand
        <4> QED BY <2>1, <3>1, <3>4, <4>1, <4>2, EnoughTiles
      <3> QED BY <2>2, <3>2, <3>3, <3>4
    <2>3. CASE m \in 513..1151
      <3>1. /\ max_rows(routed_rows(m)) = ((6 * m + 31) \div 32) * 32
            /\ physical_tiles(routed_rows(m)) = (6 * m + 31) \div 32 + 191
        BY <2>3, PlanOf
      <3>2. CASE m <= 1024
        <4>1. (6 * m + 31) \div 32 <= 192  BY <3>2
        <4>2. cap_for(m) = 1024  BY <2>3, <3>2, CapOfBand
        <4> QED BY <2>1, <3>1, <3>2, <4>1, <4>2, EnoughTiles
      <3>3. CASE m > 1024
        <4>1. (6 * m + 31) \div 32 <= 216  BY <2>3
        <4>2. cap_for(m) = 2304  BY <2>3, <3>3, CapOfBand
        <4> QED BY <2>1, <2>3, <3>1, <3>3, <4>1, <4>2, EnoughTiles
      <3> QED BY <2>3, <3>2, <3>3
    <2>4. CASE m >= 1152
      <3>1. /\ max_rows(routed_rows(m)) = ((6 * m + 63) \div 64) * 64
            /\ physical_tiles(routed_rows(m)) = (6 * m + 63) \div 64 + 191
        BY <2>4, PlanOf
      <3>2. CASE m <= 2304
        <4>1. (6 * m + 63) \div 64 <= 216  BY <3>2
        <4>2. cap_for(m) = 2304  BY <2>4, <3>2, CapOfBand
        <4> QED BY <2>1, <3>1, <3>2, <4>1, <4>2, EnoughTiles
      <3>3. CASE m > 2304
        <4>1. (6 * m + 63) \div 64 <= 384  BY DEF MAX_CAP
        <4>2. m \in 2305..4096  BY <3>3 DEF MAX_CAP
        <4>3. cap_for(m) = 4096  BY <4>2, RungChosen DEF LADDER, EXACT_MAX
        <4> QED BY <2>1, <3>1, <4>1, <4>2, <4>3, EnoughTiles
      <3> QED BY <3>2, <3>3
    <2> QED BY <2>2, <2>3, <2>4
  <1> QED BY <1>1, <1>2

(* No bucket that is ever built refuses a batch sent to it.                *)
THEOREM BucketsAlwaysServe == Spec => []BucketsServe
  <1>1. BucketsServe  BY LadderServes DEF BucketsServe, Refused
  <1> QED BY <1>1, PTL
----------------------------------------------------------------------------
(* Capacities. *)

\* Every set of naturals has a least element.
LEMMA LeastNat ==
  ASSUME NEW T \in SUBSET Nat, T # {}
  PROVE  \E m \in T : \A x \in T : m <= x
  <1>1. IsWellFoundedOn(OpToRel(<, Nat), Nat)  BY NatLessThanWellFounded
  <1>2. PICK m \in T : \A x \in T : ~(<<x, m>> \in OpToRel(<, Nat))  BY <1>1, WFMin, Zenon
  <1>3. \A x \in T : ~(x < m)  BY <1>2 DEF OpToRel
  <1> QED BY <1>3

\* The least element is what Min is.
LEMMA MinOfNats ==
  ASSUME NEW T \in SUBSET Nat, T # {}
  PROVE  Min(T) \in T /\ \A x \in T : Min(T) <= x
  BY LeastNat DEF Min

\* A power of two exceeds its exponent: 1..n has 2^n subsets, n of them singletons.
LEMMA PowerLarge ==
  ASSUME NEW n \in Nat
  PROVE  2^n \in Nat /\ n <= 2^n
  <1>1. IsFiniteSet(1..n) /\ Cardinality(1..n) = n  BY FS_Interval
  <1>2. IsFiniteSet(SUBSET (1..n)) /\ Cardinality(SUBSET (1..n)) = 2^n  BY <1>1, FS_SUBSET
  <1>3. 2^n \in Nat  BY <1>2, FS_CardinalityType
  <1> DEFINE single == [i \in 1..n |-> {i}]
  <1>4. single \in Injection(1..n, SUBSET (1..n))  BY DEF Injection, IsInjective
  <1>5. Cardinality(1..n) <= Cardinality(SUBSET (1..n))  BY <1>2, <1>4, FS_Injection
  <1> QED BY <1>1, <1>2, <1>3, <1>5

\* The buffers a batch is given have room for it.
LEMMA CapacityHolds ==
  ASSUME NEW count \in Nat
  PROVE  capacity(count) \in Nat /\ count <= capacity(count)
  <1> DEFINE B == {x \in 0..count : count <= 2^x}
             T == {2^b : b \in B}
  <1>1. count \in B  BY PowerLarge
  <1>2. \A b \in B : 2^b \in Nat  BY PowerLarge
  <1>3. T \in SUBSET Nat /\ T # {}  BY <1>1, <1>2
  <1>4. Min(T) \in T  BY <1>3, MinOfNats
  <1> QED BY <1>3, <1>4 DEF capacity

----------------------------------------------------------------------------
(* The stream: whole forwards one after the other, the first of which may  *)
(* be under way.                                                           *)

Kinds == {"ids", "lookup", "rows", "gather"}
Operations == [op : Kinds, fwd : Nat, count : Sizes]

After(op) == CASE op = "ids" -> "lookup" [] op = "lookup" -> "rows" [] OTHER -> "gather"

Whole(s) ==
    \A i \in 1..Len(s) :
        /\ s[i].op # "gather" => i < Len(s) /\ s[i + 1] = Op(After(s[i].op), s[i].fwd, s[i].count)
        /\ s[i].op = "gather" /\ i < Len(s) => s[i + 1].op = "ids"

Shaped(b) == DOMAIN b = Capacities /\ \A c \in Capacities : DOMAIN b[c] = 1..c

GatherTypes ==
    /\ stream \in Seq(Operations) /\ issued \in Nat
    /\ graphs \subseteq Sizes /\ warming \in Sizes \cup {0}
    /\ Shaped(ids) /\ Shaped(w) /\ Shaped(dw)

\* The Work of a size asks for as many rows as the size has, whenever a
\* callback that reads it may run.
WorksOwn ==
    /\ \A k \in DOMAIN works : works[k] = k
    /\ \A i \in 1..Len(stream) : stream[i].count \in DOMAIN works
    /\ graphs \subseteq DOMAIN works

Filled(b, x) == \A i \in 1..x.count : b[capacity(x.count)][i] = x.fwd

\* What the forward under way has put in the buffers.
UnderWay ==
    stream # <<>> =>
        /\ Head(stream).op = "lookup" => Filled(ids, Head(stream))
        /\ Head(stream).op = "rows" => Filled(w, Head(stream))
        /\ Head(stream).op = "gather" => Filled(dw, Head(stream))

GatherInv == GatherTypes /\ Whole(stream) /\ WorksOwn /\ UnderWay /\ GatherExact

LEMMA GatherInit == Init => GatherInv
  <1> SUFFICES ASSUME Init  PROVE GatherInv
    OBVIOUS
  <1>1. stream = <<>> /\ Len(stream) = 0 /\ stream \in Seq(Operations)  BY EmptySeq DEF Init
  <1>2. Shaped(ids) /\ Shaped(w) /\ Shaped(dw)  BY DEF Init, Shaped
  <1>3. DOMAIN works = {}  BY DEF Init
  <1>4. GatherExact
    <2>1. DOMAIN out.rows = {}  BY DEF Init
    <2> QED BY <2>1 DEF GatherExact
  <1>5. issued \in Nat /\ graphs = {} /\ warming = 0  BY DEF Init
  <1> QED BY <1>1, <1>2, <1>3, <1>4, <1>5 DEF GatherInv, GatherTypes, Whole, WorksOwn, UnderWay

\* What t has to do with s when a forward was appended to it.
Continues(s, t, count) ==
    /\ t \in Seq(Operations) /\ Whole(t)
    /\ \A i \in 1..Len(t) : t[i].count = count \/ \E j \in 1..Len(s) : t[i].count = s[j].count
    /\ s # <<>> => Head(t) = Head(s)
    /\ s = <<>> => Head(t).op = "ids"

\* A whole forward is issued behind whole forwards.
LEMMA IssueWhole ==
  ASSUME NEW s \in Seq(Operations), Whole(s), NEW f \in Nat, NEW count \in Sizes
  PROVE  Continues(s, s \o Ops(f, count), count)
  <1> DEFINE o == Ops(f, count)
             t == s \o o
             n == Len(s)
  <1>1. /\ o \in Seq(Operations) /\ Len(o) = 4
        /\ o[1] = Op("ids", f, count) /\ o[2] = Op("lookup", f, count)
        /\ o[3] = Op("rows", f, count) /\ o[4] = Op("gather", f, count)
    BY DEF Ops, Op, Operations, Kinds
  <1> HIDE DEF o
  <1>2. n \in Nat /\ t \in Seq(Operations) /\ Len(t) = n + 4
    <2>1. n \in Nat  BY LenProperties
    <2>2. t \in Seq(Operations) /\ Len(t) = n + Len(o)  BY <1>1, ConcatProperties
    <2> QED BY <1>1, <2>1, <2>2
  <1>3. /\ \A i \in 1..n : t[i] = s[i]
        /\ t[n + 1] = o[1] /\ t[n + 2] = o[2] /\ t[n + 3] = o[3] /\ t[n + 4] = o[4]
    BY <1>1, <1>2, ConcatProperties
  <1> HIDE DEF t, n
  <1>4. Whole(t)
    <2> SUFFICES ASSUME NEW i \in 1..(n + 4)
                 PROVE  /\ t[i].op # "gather" => i < n + 4 /\ t[i + 1] = Op(After(t[i].op), t[i].fwd, t[i].count)
                        /\ t[i].op = "gather" /\ i < n + 4 => t[i + 1].op = "ids"
      BY <1>2 DEF Whole
    <2>1. CASE i < n
      <3>1. t[i] = s[i] /\ t[i + 1] = s[i + 1] /\ i \in 1..Len(s)  BY <1>2, <1>3, <2>1 DEF n
      <3> QED BY <1>2, <2>1, <3>1 DEF Whole, n
    <2>2. CASE i = n
      <3>1. i \in 1..Len(s) /\ ~(i < Len(s))  BY <1>2, <2>2 DEF n
      <3>2. s[i].op = "gather"  BY <3>1 DEF Whole
      <3> QED BY <1>1, <1>2, <1>3, <2>2, <3>2 DEF Op
    <2>3. CASE i = n + 1  BY <1>1, <1>2, <1>3, <2>3 DEF Op, After
    <2>4. CASE i = n + 2  BY <1>1, <1>2, <1>3, <2>4 DEF Op, After
    <2>5. CASE i = n + 3  BY <1>1, <1>2, <1>3, <2>5 DEF Op, After
    <2>6. CASE i = n + 4  BY <1>1, <1>2, <1>3, <2>6 DEF Op
    <2> QED BY <1>2, <2>1, <2>2, <2>3, <2>4, <2>5, <2>6
  <1>5. ASSUME NEW i \in 1..(n + 4)
        PROVE  t[i].count = count \/ \E j \in 1..n : t[i].count = s[j].count
    <2>1. CASE i <= n  BY <1>2, <1>3, <2>1
    <2>2. CASE i > n
      <3>1. i = n + 1 \/ i = n + 2 \/ i = n + 3 \/ i = n + 4  BY <1>2, <2>2
      <3> QED BY <1>1, <1>3, <3>1 DEF Op
    <2> QED BY <1>2, <2>1, <2>2
  <1>6. t # <<>>  BY <1>2, EmptySeq
  <1>7. Head(t) = t[1]  BY <1>2, <1>6
  <1>8. s # <<>> => Head(s) = s[1] /\ n > 0  BY <1>2, EmptySeq DEF n
  <1>9. s # <<>> => Head(t) = Head(s)  BY <1>2, <1>3, <1>7, <1>8
  <1>10. s = <<>> => Head(t).op = "ids"
    <2>1. s = <<>> => n = 0  BY DEF n
    <2> QED BY <1>1, <1>3, <1>7, <2>1 DEF Op
  <1> QED BY <1>2, <1>4, <1>5, <1>9, <1>10 DEF t, n, o, Continues

\* A forward is issued after its Work exists.
LEMMA IssueKeeps ==
  ASSUME GatherInv, NEW count \in Sizes, Issue(count), UNCHANGED <<ids, w, dw, out>>,
         graphs' \subseteq Sizes, warming' \in Sizes \cup {0},
         DOMAIN works \cup {count} \subseteq DOMAIN works', \A k \in DOMAIN works' : works'[k] = k,
         graphs' \subseteq DOMAIN works'
  PROVE  GatherInv'
  <1>1. stream' = stream \o Ops(issued + 1, count) /\ issued' = issued + 1  BY DEF Issue
  <1>2. stream \in Seq(Operations) /\ Whole(stream) /\ issued + 1 \in Nat  BY DEF GatherInv, GatherTypes
  <1>3. /\ stream' \in Seq(Operations) /\ Whole(stream')
        /\ \A i \in 1..Len(stream') :
              stream'[i].count = count \/ \E j \in 1..Len(stream) : stream'[i].count = stream[j].count
        /\ stream # <<>> => Head(stream') = Head(stream)
        /\ stream = <<>> => Head(stream').op = "ids"
    <2>1. Continues(stream, stream \o Ops(issued + 1, count), count)  BY <1>2, IssueWhole
    <2>2. Continues(stream, stream', count)  BY <1>1, <2>1
    <2> QED BY <2>2 DEF Continues
  <1>4. GatherTypes'  BY <1>1, <1>2, <1>3 DEF GatherInv, GatherTypes, Shaped
  <1>5. WorksOwn'  BY <1>3 DEF GatherInv, WorksOwn
  <1>6. UnderWay'
    <2>1. CASE stream = <<>>  BY <1>3, <2>1 DEF UnderWay
    <2>2. CASE stream # <<>>
      <3>1. Head(stream') = Head(stream)  BY <1>3, <2>2
      <3> QED BY <2>2, <3>1 DEF GatherInv, UnderWay, Filled
    <2> QED BY <2>1, <2>2
  <1>7. GatherExact'  BY DEF GatherInv, GatherExact
  <1> QED BY <1>3, <1>4, <1>5, <1>6, <1>7 DEF GatherInv

\* A run of the Python leaves a Work of the batch's own size, and changes none.
LEMMA PrepareWorks ==
  ASSUME WorksOwn, NEW count \in Sizes, Prepare(count)
  PROVE  /\ DOMAIN works' = DOMAIN works \cup {count}
         /\ \A k \in DOMAIN works' : works'[k] = k
  BY DEF WorksOwn, Prepare, work_key

LEMMA StreamKeeps ==
  ASSUME GatherInv, StreamStep
  PROVE  GatherInv'
  <1> DEFINE x == Head(stream)
             c == capacity(x.count)
             n == x.count
  <1>1. /\ stream \in Seq(Operations) /\ stream # <<>> /\ Whole(stream) /\ WorksOwn
        /\ stream' = Tail(stream) /\ UNCHANGED <<works, graphs, warming, issued>>
    BY DEF GatherInv, GatherTypes, StreamStep
  <1>2. /\ Len(stream) \in Nat /\ Len(stream) > 0 /\ x = stream[1] /\ x \in Operations
        /\ stream' \in Seq(Operations) /\ Len(stream') = Len(stream) - 1
        /\ \A i \in 1..Len(stream') : stream'[i] = stream[i + 1]
    BY <1>1, HeadTailProperties, LenProperties, EmptySeq
  <1>3. n \in Sizes /\ n \in Nat /\ c \in Capacities /\ c \in Nat /\ n <= c /\ x.op \in Kinds
    BY <1>2, CapacityHolds, SizesAssumption DEF Operations, Capacities
  <1>4. works[work_key(n)] = n
    <2>1. 1 \in 1..Len(stream)  BY <1>2
    <2>2. n \in DOMAIN works  BY <1>1, <1>2, <2>1 DEF WorksOwn
    <2> QED BY <1>1, <2>2 DEF WorksOwn, work_key
  <1>5. /\ ids' = IF x.op = "ids" THEN [ids EXCEPT ![c] = Copied(ids[c], [i \in 1..c |-> x.fwd], n)] ELSE ids
        /\ w' = IF x.op = "lookup" THEN [w EXCEPT ![c] = Copied(w[c], ids[c], n)] ELSE w
        /\ dw' = IF x.op = "rows" THEN [dw EXCEPT ![c] = Copied(dw[c], w[c], n)] ELSE dw
        /\ out' = IF x.op = "gather" THEN [fwd |-> x.fwd, rows |-> SubSeq(dw[c], 1, n)] ELSE out
    BY <1>4 DEF StreamStep
  <1>6. Shaped(ids) /\ Shaped(w) /\ Shaped(dw) /\ UnderWay  BY DEF GatherInv, GatherTypes
  <1> HIDE DEF x, c, n
  <1>7. Shaped(ids') /\ Shaped(w') /\ Shaped(dw')
    BY <1>3, <1>5, <1>6 DEF Shaped, Copied
  <1>8. Whole(stream')
    <2> SUFFICES ASSUME NEW i \in 1..Len(stream')
                 PROVE  /\ stream'[i].op # "gather" =>
                              i < Len(stream') /\ stream'[i + 1] = Op(After(stream'[i].op), stream'[i].fwd, stream'[i].count)
                        /\ stream'[i].op = "gather" /\ i < Len(stream') => stream'[i + 1].op = "ids"
      BY DEF Whole
    <2>1. i + 1 \in 1..Len(stream) /\ (i < Len(stream') <=> i + 1 < Len(stream))  BY <1>2
    <2>2. stream'[i] = stream[i + 1]  BY <1>2
    <2>3. i < Len(stream') => stream'[i + 1] = stream[(i + 1) + 1]  BY <1>2
    <2>4. /\ stream[i + 1].op # "gather" =>
                i + 1 < Len(stream) /\ stream[(i + 1) + 1] = Op(After(stream[i + 1].op), stream[i + 1].fwd, stream[i + 1].count)
          /\ stream[i + 1].op = "gather" /\ i + 1 < Len(stream) => stream[(i + 1) + 1].op = "ids"
      BY <1>1, <2>1 DEF Whole
    <2> QED BY <2>1, <2>2, <2>3, <2>4
  <1>9. WorksOwn'
    <2>1. \A i \in 1..Len(stream') : i + 1 \in 1..Len(stream)  BY <1>2
    <2> QED BY <1>1, <1>2, <2>1 DEF WorksOwn
  <1>10. GatherTypes'  BY <1>1, <1>2, <1>7 DEF GatherInv, GatherTypes
  <1>11. UnderWay'
    <2> SUFFICES ASSUME stream' # <<>>
                 PROVE  /\ Head(stream').op = "lookup" => Filled(ids', Head(stream'))
                        /\ Head(stream').op = "rows" => Filled(w', Head(stream'))
                        /\ Head(stream').op = "gather" => Filled(dw', Head(stream'))
      BY DEF UnderWay, Filled
    <2>1. Len(stream') > 0 /\ Head(stream') = stream'[1] /\ Head(stream') = stream[2] /\ 1 \in 1..Len(stream)
      BY <1>2, EmptySeq
    <2>2. CASE x.op = "gather"
      <3>1. Head(stream').op = "ids"  BY <1>1, <1>2, <2>1, <2>2 DEF Whole
      <3> QED BY <3>1
    <2>3. CASE x.op # "gather"
      <3>1. Head(stream') = Op(After(x.op), x.fwd, n)  BY <1>1, <1>2, <2>1, <2>3 DEF Whole, n
      <3>2. Head(stream').op = After(x.op) /\ Head(stream').fwd = x.fwd /\ Head(stream').count = n
        BY <3>1 DEF Op
      <3>3. \A b : (\A i \in 1..n : b[c][i] = x.fwd) => Filled(b, Head(stream'))
        BY <3>2 DEF Filled, c, n
      <3>4. CASE x.op = "ids"
        <4>1. \A i \in 1..n : ids'[c][i] = x.fwd  BY <1>3, <1>5, <1>6, <3>4 DEF Shaped, Copied
        <4> QED BY <3>2, <3>3, <3>4, <4>1 DEF After
      <3>5. CASE x.op = "lookup"
        <4>1. \A i \in 1..n : ids[c][i] = x.fwd  BY <1>1, <1>6, <3>5 DEF UnderWay, Filled, x, c, n
        <4>2. \A i \in 1..n : w'[c][i] = x.fwd  BY <1>3, <1>5, <1>6, <3>5, <4>1 DEF Shaped, Copied
        <4> QED BY <3>2, <3>3, <3>5, <4>2 DEF After
      <3>6. CASE x.op = "rows"
        <4>1. \A i \in 1..n : w[c][i] = x.fwd  BY <1>1, <1>6, <3>6 DEF UnderWay, Filled, x, c, n
        <4>2. \A i \in 1..n : dw'[c][i] = x.fwd  BY <1>3, <1>5, <1>6, <3>6, <4>1 DEF Shaped, Copied
        <4> QED BY <3>2, <3>3, <3>6, <4>2 DEF After
      <3> QED BY <1>3, <2>3, <3>4, <3>5, <3>6 DEF Kinds
    <2> QED BY <2>2, <2>3
  <1>12. GatherExact'
    <2>1. CASE x.op # "gather"  BY <1>5, <2>1 DEF GatherInv, GatherExact
    <2>2. CASE x.op = "gather"
      <3>1. \A i \in 1..n : dw[c][i] = x.fwd  BY <1>1, <1>6, <2>2 DEF UnderWay, Filled, x, c, n
      <3>2. out'.fwd = x.fwd /\ out'.rows = SubSeq(dw[c], 1, n)  BY <1>5, <2>2
      <3>3. \A i \in 1..n : dw[c][i] \in {x.fwd}  BY <3>1
      <3>4. /\ SubSeq(dw[c], 1, n) \in Seq({x.fwd}) /\ Len(SubSeq(dw[c], 1, n)) = n
        BY <1>3, <3>3, SubSeqProperties
      <3>5. DOMAIN SubSeq(dw[c], 1, n) = 1..n /\ \A i \in 1..n : SubSeq(dw[c], 1, n)[i] \in {x.fwd}
        BY <3>4, LenProperties, ElementOfSeq
      <3> QED BY <3>2, <3>5 DEF GatherExact
    <2> QED BY <2>1, <2>2
  <1> QED BY <1>8, <1>9, <1>10, <1>11, <1>12 DEF GatherInv

LEMMA GatherStep == GatherInv /\ [Next]_vars => GatherInv'
  <1> SUFFICES ASSUME GatherInv, [Next]_vars  PROVE GatherInv'
    OBVIOUS
  <1> WorksOwn /\ GatherTypes  BY DEF GatherInv
  <1>1. ASSUME NEW count \in Sizes, Eager(count)  PROVE GatherInv'
    <2>1. Issue(count) /\ Prepare(count) /\ UNCHANGED <<graphs, warming, ids, w, dw, out>>
      BY <1>1 DEF Eager
    <2> QED BY <2>1, PrepareWorks, IssueKeeps DEF GatherTypes, WorksOwn
  <1>2. ASSUME NEW count \in Sizes, WarmUp(count)  PROVE GatherInv'
    <2>1. Issue(count) /\ Prepare(count) /\ warming' = count /\ UNCHANGED <<graphs, ids, w, dw, out>>
      BY <1>2 DEF WarmUp
    <2> QED BY <2>1, PrepareWorks, IssueKeeps DEF GatherTypes, WorksOwn
  <1>3. ASSUME NEW count \in Sizes, Replay(count)  PROVE GatherInv'
    <2>1. Issue(count) /\ count \in graphs /\ UNCHANGED <<works, graphs, warming, ids, w, dw, out>>
      BY <1>3 DEF Replay
    <2> QED BY <2>1, IssueKeeps DEF GatherTypes, WorksOwn
  <1>4. CASE Capture
    <2>1. /\ warming \in Sizes /\ Prepare(warming) /\ graphs' = graphs \cup {warming} /\ warming' = 0
          /\ UNCHANGED <<issued, stream, ids, w, dw, out>>
      BY <1>4 DEF Capture, GatherTypes
    <2>2. DOMAIN works' = DOMAIN works \cup {warming} /\ \A k \in DOMAIN works' : works'[k] = k
      BY <2>1, PrepareWorks
    <2>3. WorksOwn'  BY <2>1, <2>2 DEF WorksOwn
    <2>4. GatherTypes'  BY <2>1 DEF GatherTypes, Shaped
    <2>5. UnderWay'  BY <2>1 DEF GatherInv, UnderWay, Filled
    <2> QED BY <2>1, <2>3, <2>4, <2>5 DEF GatherInv, Whole, GatherExact
  <1>5. CASE StreamStep  BY <1>5, StreamKeeps
  <1>6. CASE UNCHANGED vars
    BY <1>6 DEF vars, GatherInv, GatherTypes, Shaped, Whole, WorksOwn, UnderWay, Filled, GatherExact
  <1> QED BY <1>1, <1>2, <1>3, <1>4, <1>5, <1>6 DEF Next

(* GatherExact for any batch sizes, any captured sizes and a host that is  *)
(* any number of forwards ahead: the buffers that batches of one capacity  *)
(* share are never read for one forward with what another left there       *)
(* (adapter/engram_backend.py owned).                                      *)
THEOREM GathersOwnRows == Spec => []GatherExact
  <1>1. GatherInv => GatherExact  BY DEF GatherInv
  <1> QED BY <1>1, GatherInit, GatherStep, PTL DEF Spec
=============================================================================
