----------------------------- MODULE MoeLadder -----------------------------
(***************************************************************************)
(* The buckets of the MoE adapter (adapter/moe_b12x.py) and the plan that  *)
(* b12x makes for a number of tokens (moe/fused_moe/_impl.py), for the A8  *)
(* kernel and the expert geometry of the target layers.  A bucket's        *)
(* workspace is planned once for its capacity; every call plans again for  *)
(* the tokens it has and refuses a workspace that is smaller in any part.  *)
(* The plan is not monotonic: the row tile doubles at two boundaries, so   *)
(* fewer tokens may need more tiles.                                       *)
(***************************************************************************)
EXTENDS Integers, FiniteSets

num_experts == 192
num_topk == 6
intermediate_size == 2304

EXACT_MAX == 96
LADDER_2048 == {128, 256, 512, 1024, 2048, 4096}  \* mutant: the A16 rungs under the A8 kernel
LADDER == {128, 256, 512, 1024, 2304, 4096}
MAX_CAP == 4096

\* The smallest bucket that holds m tokens.
cap_for(m) ==
    IF m <= EXACT_MAX THEN m
    ELSE CHOOSE cap \in LADDER : m <= cap /\ \A c \in LADDER : m <= c => cap <= c

CeilDiv(a, b) == (a + b - 1) \div b
routed_rows(m) == m * num_topk

\* _select_dynamic_tile_mn, w4a8_mx: rows of a tile.
tile_m(rows) ==
    IF rows >= 36 * num_experts THEN 64
    ELSE IF rows > 16 * num_experts THEN 32
    ELSE 16

max_rows(rows) == CeilDiv(rows, tile_m(rows)) * tile_m(rows)

\* _dynamic_task_geometry: a partial tile for each expert that can be active.
physical_tiles(rows) ==
    CeilDiv(rows, tile_m(rows)) + (IF num_experts < rows THEN num_experts ELSE rows) - 1

\* One task for each tile and each slice of 128 columns.
task_capacity(rows) == physical_tiles(rows) * CeilDiv(intermediate_size, 128)

\* _validate_workspace: the workspace of a bucket against the plan for m.
Serves(cap, m) ==
    LET have == routed_rows(cap)
        need == routed_rows(m)
    IN  /\ need <= have
        /\ max_rows(need) <= max_rows(have)
        /\ physical_tiles(need) <= physical_tiles(have)
        /\ task_capacity(need) <= task_capacity(have)

\* The batches that the bucket meant for them would refuse.
Refused == {m \in 1..MAX_CAP : ~Serves(cap_for(m), m)}
=============================================================================
