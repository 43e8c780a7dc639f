---------------------------- MODULE RequestRings ----------------------------
(***************************************************************************)
(* The second ring a request owns beside its window ring: the pending      *)
(* pairs of the ratio-2 layers (deepseek_v4_memory_pool.py                 *)
(* _make_pair_state_pool, deepseek_v4_backend.py _low_ratio_compress, and  *)
(* the kernel c2.cuh).  Two positions 2j, 2j + 1 are compressed into one   *)
(* latent when the odd one is computed; until then the even token waits in *)
(* row pos % ring_size of its request.  Drafts that are rejected were      *)
(* computed and parked like any other row.                                 *)
(*                                                                         *)
(* The layers of the window run as in RequestWindow; layer 1 stands for    *)
(* the layers that own a compressor, which runs before their attention.    *)
(***************************************************************************)
EXTENDS RequestWindow

ASSUME EvenPages == page_size % 2 = 0

bit_length(n) == Min({b \in 0..(n + 1) : n < 2^b})

ring_sizeTight == IF Draft = 0 THEN 2 ELSE 2^bit_length(Draft - 1)  \* mutant: no room beyond the drafts
\* get_compress_state_ring_size at ratio 2; Draft = 0 is not speculative.
ring_size == IF Draft = 0 THEN 2 ELSE 2^bit_length(Draft + 1)

VARIABLES
    pending,    \* per slot and ring row: the token parked there
    pairs       \* per slot and pair j: the two tokens its latent was made of

ringVars == <<vars, pending, pairs>>

NoToken == [epoch |-> 0, pos |-> -1, ok |-> FALSE, full |-> FALSE]
NoPair == <<NoToken, NoToken>>
PendingRows == Slots \X (0..(ring_size - 1))
Pairs == 0..(MaxLen \div 2)

RingsInit ==
    /\ Init
    /\ pending = [x \in PendingRows |-> NoToken]
    /\ pairs = [s \in Slots |-> [j \in Pairs |-> NoPair]]

\* The token that request e finally has at position p, computed with
\* everything before it in view.
Accepted(e, p) == [epoch |-> e, pos |-> p, ok |-> TRUE, full |-> TRUE]
Own(s, p) == Accepted(epoch[s], p)

\* What the projections of row x carry: a floor hides the earlier positions.
Token(x) == [epoch |-> epoch[x.req], pos |-> x.pos, ok |-> x.pos < fwd.kept[x.req], full |-> x.floor = 0]

----------------------------------------------------------------------------
(* The compressor over rows r: the queries of the forward, then the padded *)
(* rows of the graph's bucket, which carry what its buffers last held.     *)

Live(q) == [i \in DOMAIN q |-> [req |-> q[i].req, pos |-> q[i].pos, floor |-> q[i].floor, pad |-> FALSE]]
Padding(n) == {[i \in 1..n |-> [req |-> s, pos |-> p + i - 1, floor |-> 0, pad |-> TRUE]] : s \in Slots, p \in 0..1}

Parked(x) == <<x.req, x.pos % ring_size>>
Partner(x) == <<x.req, (x.pos - 1) % ring_size>>

\* The rows of r listed in W are written: of two that share a ring row, either.
Park(r, W, last) ==
    [x \in PendingRows |->
        LET w == {i \in W : Parked(r[i]) = x} IN
        IF w = {} THEN pending[x] ELSE Token(r[IF last THEN Max(w) ELSE Min(w)])]

\* An odd row i completes its pair with partner[i]; the latent goes to
\* raw_out_loc // 2, and nowhere for a padded row.
Store(r, partner) ==
    [s \in Slots |-> [j \in Pairs |->
        IF \E i \in DOMAIN r : ~r[i].pad /\ r[i].req = s /\ r[i].pos = 2 * j + 1
        THEN LET i == CHOOSE i \in DOMAIN r : ~r[i].pad /\ r[i].req = s /\ r[i].pos = 2 * j + 1
             IN  <<partner[i], Token(r[i])>>
        ELSE pairs[s][j]]]

in_batch(r, i) ==
    /\ i > 1 /\ r[i].req = r[i - 1].req /\ r[i].pos = r[i - 1].pos + 1
    /\ ~r[i].pad /\ ~r[i - 1].pad

keepAll(r, i) == ~r[i].pad  \* mutant
\* The last ring_size rows of each request.
keep(r, i) ==
    /\ ~r[i].pad
    /\ i + ring_size <= Len(r) => r[i].req # r[i + ring_size].req \/ r[i + ring_size].pad

\* _low_ratio_compress_torch: every read comes before every write.
CompressTorch(r) ==
    /\ pairs' = Store(r, [i \in DOMAIN r |-> IF in_batch(r, i) THEN Token(r[i - 1]) ELSE pending[Partner(r[i])]])
    /\ \E last \in BOOLEAN : pending' = Park(r, {i \in DOMAIN r : keep(r, i)}, last)

ParksPadded(x) == x.pos % 2 = 0  \* mutant
\* The rows that the kernel writes.
Parks(x) == x.pos % 2 = 0 /\ ~x.pad

\* The kernel over blocks of k rows: only the first row of a block reads the
\* ring, and the thread blocks of a launch run in no order, so that it may
\* see what another row of the launch writes.
CompressFused(r, k) ==
    \E late \in BOOLEAN :
        LET after == Park(r, {i \in DOMAIN r : Parks(r[i])}, late)
            carried == IF late THEN after ELSE pending
        IN  /\ pairs' = Store(r, [i \in DOMAIN r |->
                            IF (i - 1) % k # 0 THEN Token(r[i - 1]) ELSE carried[Partner(r[i])]])
            /\ pending' = after

\* Decode, or a verify of full blocks.
fused == fwd.kind = "verify" /\ Draft # 1 /\ fwd.block = Max({1, Draft})

\* _low_ratio_compress.
Compress(q) ==
    \E pads \in {<<>>} \cup Padding(Max({1, fwd.block})) :
        \/ CompressTorch(Live(q) \o pads)
        \/ fused /\ CompressFused(Live(q) \o pads, fwd.block)

run_compressorAlways == fwd.layer = 1  \* mutant
\* forward_low_ratio_sources: a replay leaves the latents of the prefix alone.
run_compressor == fwd.layer = 1 /\ fwd.kind # "replay"

----------------------------------------------------------------------------
(* The cached prefix of a request is a number of whole pages; its latents  *)
(* come with it.                                                           *)
RingsAdmit(s, n, c) ==
    /\ c % page_size = 0 /\ Admit(s, n, c)
    /\ pairs' = [t \in Slots |->
                    IF t # s THEN pairs[t]
                    ELSE [j \in Pairs |-> IF 2 * j + 1 < c
                                          THEN <<Accepted(admitted + 1, 2 * j), Accepted(admitted + 1, 2 * j + 1)>>
                                          ELSE NoPair]]
    /\ UNCHANGED pending

RingsBuffer ==
    /\ Buffer
    /\ IF run_compressor THEN Compress(layout) ELSE UNCHANGED <<pending, pairs>>

RingsNext ==
    \/ \E s \in Slots, n \in 1..MaxLen, c \in 0..MaxLen : RingsAdmit(s, n, c)
    \/ RingsBuffer
    \/ (Forward \/ Commit) /\ UNCHANGED <<pending, pairs>>

RingsSpec == RingsInit /\ [][RingsNext]_ringVars

----------------------------------------------------------------------------
(* Properties. *)

(* A request whose length is odd finds its pending token: the ring row of  *)
(* its last position holds that position of this request, accepted, over   *)
(* any chunking, rejected drafts, padded rows and wraps of the ring.       *)
PendingHeld ==
    \A s \in Slots : fwd.kind = "none" /\ epoch[s] > 0 /\ len[s] % 2 = 1 =>
        pending[<<s, (len[s] - 1) % ring_size>>] = Own(s, len[s] - 1)

(* Each pair of accepted positions has the latent of its own two tokens.   *)
PairsExact ==
    \A s \in Slots : fwd.kind = "none" /\ epoch[s] > 0 =>
        \A j \in Pairs : 2 * j + 1 < len[s] => pairs[s][j] = <<Own(s, 2 * j), Own(s, 2 * j + 1)>>

(* The latent of a pair that is done is never written again while the      *)
(* request has the slot: the prefix cache shares it.                       *)
PairsFinal ==
    [][\A s \in Slots : epoch'[s] = epoch[s] =>
        \A j \in Pairs : 2 * j + 1 < len[s] => pairs'[s][j] = pairs[s][j]]_ringVars
=============================================================================
