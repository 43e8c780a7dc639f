---------------------------- MODULE GraphForward ----------------------------
(***************************************************************************)
(* The adapters inside a forward that is run eagerly, or captured in a     *)
(* CUDA graph and replayed.  The Engram lookup (adapter/engram_backend.py  *)
(* owned) copies the ids of the batch to pinned memory, has the stream     *)
(* call the row store on the host, copies the rows back and gathers them;  *)
(* its buffers are shared by all batches of one capacity, and the argument *)
(* of the call by all batches of one size.  The MoE adapter builds the     *)
(* bucket of a batch when it first meets it.  The host runs ahead of the   *)
(* stream.                                                                 *)
(*                                                                         *)
(* The ids of forward f are all f: a cell of a buffer holds the forward    *)
(* whose id or row it was written for, or 0.                               *)
(***************************************************************************)
EXTENDS MoeLadder, Sequences, FiniteSetsExt

CONSTANTS
    Sizes,          \* tokens of a batch
    CaptureSizes,   \* those that get a graph
    MaxForwards,    \* bound: forwards issued
    MaxQueued       \* bound: forwards that the host is ahead of the stream

ASSUME SizesAssumption ==
    /\ IsFiniteSet(Sizes) /\ Sizes \subseteq Nat \ {0} /\ CaptureSizes \subseteq Sizes
    /\ MaxForwards \in Nat /\ MaxQueued \in Nat \ {0}

VARIABLES
    staging,    \* capacities whose buffers are allocated
    works,      \* key -> the number of ids the row store is asked for
    buckets,    \* MoE buckets that are built
    graphs,     \* sizes captured
    warming,    \* the size being captured, 0 for none
    issued,     \* forwards issued
    stream,     \* operations that the stream has not run
    ids, w, dw, \* capacity -> pinned ids, pinned rows, device rows
    out         \* what the last gather read, and for which forward

vars == <<staging, works, buckets, graphs, warming, issued, stream, ids, w, dw, out>>

capacity(count) == Min({2^b : b \in {x \in 0..count : count <= 2^x}})
Capacities == {capacity(c) : c \in Sizes}

work_keyCapacity(count) == capacity(count)  \* mutant
work_key(count) == count

Init ==
    /\ staging = {} /\ works = <<>> /\ graphs = {} /\ warming = 0
    /\ buckets = LADDER  \* built when a target layer is loaded
    /\ issued = 0 /\ stream = <<>>
    /\ ids = [c \in Capacities |-> [i \in 1..c |-> 0]] /\ w = ids /\ dw = ids
    /\ out = [fwd |-> 0, rows |-> <<>>]

Op(op, f, count) == [op |-> op, fwd |-> f, count |-> count]

\* The operations of a forward, in stream order.
Ops(f, count) ==
    <<Op("ids", f, count), Op("lookup", f, count), Op("rows", f, count), Op("gather", f, count)>>

Issue(count) ==
    /\ issued < MaxForwards /\ Len(stream) <= 4 * (MaxQueued - 1)
    /\ issued' = issued + 1
    /\ stream' = stream \o Ops(issued + 1, count)

\* What a run of the model's Python leaves for a batch of this size.
Prepare(count) ==
    /\ staging' = staging \cup {capacity(count)}
    /\ works' = IF work_key(count) \in DOMAIN works THEN works
                ELSE [k \in DOMAIN works \cup {work_key(count)} |-> IF k \in DOMAIN works THEN works[k] ELSE count]
    /\ buckets' = buckets \cup {cap_for(count)}

\* A batch without a graph.
Eager(count) ==
    /\ warming = 0 /\ count \notin graphs
    /\ Issue(count) /\ Prepare(count)
    /\ UNCHANGED <<graphs, warming, ids, w, dw, out>>

\* The graph backend runs the forward before it captures it.
WarmUp(count) ==
    /\ warming = 0 /\ count \in CaptureSizes \ graphs
    /\ Issue(count) /\ Prepare(count)
    /\ warming' = count
    /\ UNCHANGED <<graphs, ids, w, dw, out>>

\* The capture itself runs nothing on the stream; it records the addresses.  A
\* capacity that is not staged raises.
Capture ==
    /\ warming # 0 /\ stream = <<>> /\ capacity(warming) \in staging
    /\ graphs' = graphs \cup {warming} /\ warming' = 0
    /\ Prepare(warming)
    /\ UNCHANGED <<issued, stream, ids, w, dw, out>>

Replay(count) ==
    /\ warming = 0 /\ count \in graphs
    /\ Issue(count)
    /\ UNCHANGED <<staging, works, buckets, graphs, warming, ids, w, dw, out>>

----------------------------------------------------------------------------
(* The stream runs its operations one after the other. *)

Copied(to, from, n) == [i \in DOMAIN to |-> IF i <= n THEN from[i] ELSE to[i]]

\* A callback reads its Work when it runs.
StreamStep ==
    /\ stream # <<>>
    /\ LET x == Head(stream)
           c == capacity(x.count)
           same == [i \in 1..c |-> x.fwd]
       IN  /\ ids' = IF x.op = "ids" THEN [ids EXCEPT ![c] = Copied(@, same, x.count)] ELSE ids
           /\ w' = IF x.op = "lookup" THEN [w EXCEPT ![c] = Copied(@, ids[c], works[work_key(x.count)])] ELSE w
           /\ dw' = IF x.op = "rows" THEN [dw EXCEPT ![c] = Copied(@, w[c], x.count)] ELSE dw
           /\ out' = IF x.op = "gather" THEN [fwd |-> x.fwd, rows |-> SubSeq(dw[c], 1, x.count)] ELSE out
    /\ stream' = Tail(stream)
    /\ UNCHANGED <<staging, works, buckets, graphs, warming, issued>>

Next ==
    \/ \E count \in Sizes : Eager(count) \/ WarmUp(count) \/ Replay(count)
    \/ Capture \/ StreamStep

Spec == Init /\ [][Next]_vars

----------------------------------------------------------------------------
(* Properties. *)

(* Every forward gathers the rows of its own ids, all of them, whatever    *)
(* forwards of other sizes, eager or replayed, share its buffers.          *)
GatherExact == \A i \in DOMAIN out.rows : out.rows[i] = out.fwd

(* No bucket that is built refuses a batch the ladder sends to it: each    *)
(* rung is planned for the worst of its band, and not only for its top.    *)
BucketsServe == \A m \in Refused : cap_for(m) \notin buckets
=============================================================================
