--------------------------- MODULE RequestWindow ---------------------------
(***************************************************************************)
(* RequestWindow (sglang-overlay/dsv41_request_window.py): with encoder    *)
(* SWA bounded replay each request slot keeps its window KV, per layer, in *)
(* a ring of capacity rows.  A forward copies the history of its requests  *)
(* from the rings into a workspace shared by all layers, writes its own    *)
(* rows behind it, attends, and commits its rows to the rings.             *)
(*                                                                         *)
(* The KV of a token is [epoch, pos, ok]: the number of the request,       *)
(* the position, and whether the token was accepted.  Layer 2 stands for   *)
(* the late layers, which see the tail of an extend only                   *)
(* (enter_late_layer_tail).                                                *)
(***************************************************************************)
EXTENDS WindowLayout

CONSTANTS
    NumSlots,      \* num_req_slots (1 or 2 here)
    page_size,
    Draft,         \* online_mtp_max_draft_tokens
    ChunkSize,
    MaxLen,        \* bound: positions of a request
    MaxRequests    \* bound: requests admitted

ASSUME RingAssumption ==
    /\ NumSlots \in {1, 2} /\ page_size \in Nat \ {0}
    /\ Draft \in Nat /\ ChunkSize \in Nat \ {0}
    /\ MaxLen \in Nat /\ MaxRequests \in Nat

Slots == 1..NumSlots
Layers == 1..2

PageAlign(n) == ((n + page_size - 1) \div page_size) * page_size
capacityWindow == PageAlign(Window)  \* mutant: no room for draft tokens
capacity == PageAlign(Window + Draft)

\* Rows of the workspace, sized once: captured graphs hold its address.
workspace_rowsHistory == (NumSlots + 1) * Window  \* mutant: no rows for the queries
workspace_rows == (NumSlots + 1) * Window + Max({ChunkSize, (NumSlots + 1) * (1 + Draft)})

VARIABLES
    epoch, len, fill,   \* per slot: request, positions done, positions to extend to, 0 when decoding
    replayed,           \* the window of the slot's prefix has been replayed
    state, tags,        \* per layer and ring row
    workspace,          \* row -> KV
    layout,             \* the layout activated
    prepared,           \* layer whose history the workspace holds; 0 is None
    fwd                 \* the forward in progress

vars == <<epoch, len, fill, replayed, state, tags, workspace, layout, prepared, fwd>>

NoKV == [epoch |-> 0, pos |-> -1, ok |-> FALSE]
Idle == [kind |-> "none", layer |-> 0, step |-> "", block |-> 0, kept |-> [s \in Slots |-> 0]]
Rows == Slots \X (0..(capacity - 1))
Row(s, p) == <<s, p % capacity>>

Init ==
    /\ epoch = [s \in Slots |-> 0]
    /\ len = [s \in Slots |-> 0] /\ fill = [s \in Slots |-> 0]
    /\ replayed = [s \in Slots |-> FALSE]
    /\ state = [l \in Layers |-> [x \in Rows |-> NoKV]]
    /\ tags = [l \in Layers |-> [x \in Rows |-> -1]]
    /\ workspace = <<>> /\ layout = <<>> /\ prepared = 0
    /\ fwd = Idle

----------------------------------------------------------------------------
(* Requests. *)

ResetNothing(s) == tags  \* mutant
\* reset(): the tags once slot s is forgotten.
ResetTags(s) == [l \in Layers |-> [x \in Rows |-> IF x[1] = s THEN -1 ELSE tags[l][x]]]

admitted == Max({epoch[s] : s \in Slots})

\* A request of n tokens takes the slot (again, after a retraction), with the
\* first c positions in the prefix cache; encoder_swa_reset marks it.
Admit(s, n, c) ==
    /\ fwd.kind = "none" /\ admitted < MaxRequests /\ c < n
    /\ epoch' = [epoch EXCEPT ![s] = admitted + 1]
    /\ len' = [len EXCEPT ![s] = c] /\ fill' = [fill EXCEPT ![s] = n]
    /\ replayed' = [replayed EXCEPT ![s] = c = 0]
    /\ tags' = ResetTags(s) /\ prepared' = 0
    /\ UNCHANGED <<state, workspace, layout, fwd>>

----------------------------------------------------------------------------
(* A forward over queries q, kept[s] positions of slot s done at its end;  *)
(* a verify has block queries for each of its requests.                    *)

Queries(s, from, to, floor) ==
    [i \in 1..(to - from) |-> [req |-> s, pos |-> from + i - 1, floor |-> floor]]

\* The rows of the slots, one slot after the other.
InOrder(part) == IF NumSlots = 1 THEN part[1] ELSE part[1] \o part[2]

Start(kind, q, kept, block) ==
    /\ fwd.kind = "none"
    /\ fwd' = [kind |-> kind, layer |-> 1, step |-> "buffer", block |-> block, kept |-> kept]
    /\ layout' = q /\ prepared' = 0
    /\ UNCHANGED <<epoch, len, fill, replayed, state, tags, workspace>>

\* The replay of the last positions of a cached prefix: it sees nothing
\* before itself (encoder_swa_replay sets the floor).
Replay(s) ==
    /\ epoch[s] > 0 /\ ~replayed[s]
    /\ LET from == IF len[s] > Window THEN len[s] - Window ELSE 0 IN
       Start("replay", Queries(s, from, len[s], from), len, 0)

Ready(s) == epoch[s] > 0 /\ replayed[s]

\* One chunk of n[s] tokens of each slot of an extend batch.
Extend(n) ==
    /\ \A s \in Slots : n[s] > 0 => Ready(s) /\ len[s] + n[s] <= fill[s]
    /\ LET total == IF NumSlots = 1 THEN n[1] ELSE n[1] + n[2] IN total \in 1..ChunkSize
    /\ Start("extend", InOrder([s \in Slots |-> Queries(s, len[s], len[s] + n[s], 0)]),
             [s \in Slots |-> len[s] + n[s]], 0)

\* A verify step of k tokens per decoding slot, of which a[s] are accepted.
Verify(B, k, a) ==
    /\ \A s \in B : Ready(s) /\ len[s] >= fill[s] /\ a[s] \in 1..k /\ len[s] + k <= MaxLen
    /\ Start("verify", InOrder([s \in Slots |-> IF s \in B THEN Queries(s, len[s], len[s] + k, 0) ELSE <<>>]),
             [s \in Slots |-> IF s \in B THEN len[s] + a[s] ELSE len[s]], k)

\* The KV the forward computes for query x.
KV(x) == [epoch |-> epoch[x.req], pos |-> x.pos, ok |-> x.pos < fwd.kept[x.req]]

Missing(q, l) == \E h \in history(q) : tags[l][Row(h.req, h.pos)] # h.pos

\* buffer() before the first write of the layer: the history is checked and
\* copied unless the workspace holds it already; then the layer's own rows
\* are written behind it.
Buffer ==
    /\ fwd.step = "buffer"
    /\ LET q == layout
           l == fwd.layer
           filled == [r \in 0..(size(q) - 1) |->
                        IF \E i \in DOMAIN q : write_loc(q, i) = r
                        THEN KV(q[CHOOSE i \in DOMAIN q : write_loc(q, i) = r])
                        ELSE IF prepared = l THEN workspace[r]
                        ELSE IF \E h \in history(q) : h.loc = r
                        THEN LET h == CHOOSE h \in history(q) : h.loc = r IN state[l][Row(h.req, h.pos)]
                        ELSE NoKV]
       IN  /\ fwd' = [fwd EXCEPT !.step = IF prepared # l /\ Missing(q, l) THEN "missing" ELSE "attend"]
           /\ workspace' = filled /\ prepared' = l
    /\ UNCHANGED <<epoch, len, fill, replayed, state, tags, layout>>

Committed(q) == {i \in DOMAIN q : commit_mask(q, i, capacity)}

\* The queries of the late layers: the last Window of each slot of an extend,
\* floored at the first of them.  A replay has no others.
\* DSV41_SKIP_NONFINAL_DECODER, which takes queries away, is off.
LateQueries ==
    LET from == [s \in Slots |-> Max({len[s], fwd.kept[s] - Window})] IN
    IF fwd.kind = "extend"
    THEN InOrder([s \in Slots |-> Queries(s, from[s], fwd.kept[s], from[s])])
    ELSE layout

\* commit(), then on to the next layer.
Commit ==
    /\ fwd.step = "attend"
    /\ LET q == layout
           l == fwd.layer
           dst(i) == Row(q[i].req, q[i].pos)
           at(x) == CHOOSE i \in Committed(q) : dst(i) = x
       IN  /\ state' = [state EXCEPT ![l] = [x \in Rows |->
                 IF \E i \in Committed(q) : dst(i) = x
                 THEN workspace[write_loc(q, at(x))] ELSE @[x]]]
           /\ tags' = [tags EXCEPT ![l] = [x \in Rows |->
                 IF \E i \in Committed(q) : dst(i) = x THEN q[at(x)].pos ELSE @[x]]]
           /\ IF l = 1
              THEN /\ fwd' = [fwd EXCEPT !.layer = 2, !.step = "buffer"]
                   /\ layout' = LateQueries
                   /\ prepared' = IF LateQueries = q THEN prepared ELSE 0
                   /\ UNCHANGED <<len, fill, replayed, workspace>>
              ELSE /\ fwd' = Idle /\ len' = fwd.kept
                   /\ fill' = [s \in Slots |-> IF len'[s] >= fill[s] THEN 0 ELSE fill[s]]
                   /\ replayed' = [s \in Slots |-> replayed[s] \/ (fwd.kind = "replay" /\ q[1].req = s)]
                   /\ workspace' = <<>> /\ layout' = <<>> /\ prepared' = 0  \* dead: Start replaces them
    /\ UNCHANGED epoch

----------------------------------------------------------------------------
\* A verify block has up to speculative_num_draft_tokens rows; a decode has one.
Forward ==
    \/ \E s \in Slots : Replay(s)
    \/ \E n \in [Slots -> 0..ChunkSize] : Extend(n)
    \/ \E B \in (SUBSET Slots) \ {{}}, k \in 1..Max({1, Draft}) : \E a \in [B -> 1..k] : Verify(B, k, a)

Next ==
    \/ \E s \in Slots, n \in 1..MaxLen, c \in 0..MaxLen : Admit(s, n, c)
    \/ Forward \/ Buffer \/ Commit

Spec == Init /\ [][Next]_vars

----------------------------------------------------------------------------
(* Properties. *)

(* "SWA history is missing: replay or window ownership is invalid" is not  *)
(* raised, whatever the chunking, drafts, slot reuse and prefix hits.      *)
HistoryPresent == fwd.step # "missing"

(* When a layer attends, each query's index for each position of its       *)
(* window leads to the KV of that position: of its own request, accepted   *)
(* if it comes from an earlier forward.                                    *)
QueriesExact ==
    fwd.step = "attend" =>
        \A i \in DOMAIN layout : \A p \in Seen(layout, i) :
            LET kv == workspace[indices(layout, i, p)] IN
            /\ kv.epoch = epoch[layout[i].req] /\ kv.pos = p
            /\ p < first_pos(layout, i) => kv.ok

(* "request-window workspace too small" is not raised.                     *)
WorkspaceFits == size(layout) <= PageAlign(workspace_rows)

(* Two rows committed together never share a ring row: the indexed store   *)
(* would otherwise keep either of them.                                    *)
CommitsDistinct ==
    fwd.step = "attend" =>
        \A i, j \in Committed(layout) :
            Row(layout[i].req, layout[i].pos) = Row(layout[j].req, layout[j].pos) => i = j

(* A tag vouches for its ring row: the row holds that position, computed   *)
(* for the slot's current request.                                         *)
TagsOwn ==
    \A l \in Layers, x \in Rows : tags[l][x] # -1 =>
        state[l][x].epoch = epoch[x[1]] /\ state[l][x].pos = tags[l][x]
=============================================================================
